---- MODULE Spec2Model ----
(***************************************************************************)
(* Verification model of relh/reference_validator.                         *)
(*                                                                         *)
(*   - validate.py / old_validate.py : the resumable Google-Scholar run    *)
(*     (checkpoint file, skip of processed ids, merge, block handling);    *)
(*   - crossref_arxiv.py, cvf_openreview.py, final_filter.py : the         *)
(*     per-entry cascades over the source adapters;                        *)
(*   - the merge functions of validate.py as pure operators.               *)
(*                                                                         *)
(* Strings whose content matters (field values) are sequences of           *)
(* one-character strings, so that strip(), lower() and substring tests     *)
(* are computed.  A Python dict is a function whose DOMAIN is the set of   *)
(* keys present.                                                           *)
(***************************************************************************)
EXTENDS Integers, Sequences, FiniteSets, TLC

VARIABLES
    \* ---- pure merge harness
    mPc, mOriginal, mOfficial, mPartial, mOutput, mRaised, mReports,
    \* the merge applied once more, to its own result
    mAgain,
    \* ---- validate.py / old_validate.py run
    variant, input, disk, pc, idx, processed_ids, corrected, merged, after,
    run, exitReason,
    \* history of the run (not program state)
    lookups, diskAtStart, blocked, callsAfterBlock, terminal, lastCase,
    \* the input file as the process finds it, the status the process
    \* exited with, and what it did to the output file (history)
    inputFile, exitCode, outputAccess,
    \* whether the search has returned the same for a title every time, over
    \* all the runs, and what it returned for each title as long as that is
    \* so (history)
    answers, sameAnswers,
    \* the delays time.sleep() has been called with in this run, in tenths
    \* of a second
    slept,
    \* ---- cascades
    prog, cEntries, cIdx, cPos, found, calls, flagged, cPc,
    \* what the last adapter call was given and how far it read (history)
    lastCall,
    \* the input file as the process finds it, the status it exited with
    \* and whether it wrote its report
    cInputFile, cExit, cOutput,
    \* ---- bs_check.py / check_semantic.py (flag-only checking)
    fProg, fEntries, fIdx, fPc, mismatch_found, annotations,
    \* history of the flag-only run (not program state)
    fOfficial, fSinceDelay, fRaised, fExtracted, fFetched,
    \* ---- the flagged report (crossref_arxiv.py writes it,
    \*      cvf_openreview.py and final_filter.py load it)
    rPc, rEntries, rFile, rRecords,
    \* ---- the matching functions applied to bounded arguments
    xPc, xCall, xRet

mergeVars == <<mPc, mOriginal, mOfficial, mPartial, mOutput, mRaised,
               mReports, mAgain>>
runVars == <<variant, input, disk, pc, idx, processed_ids, corrected, merged,
             after, run, exitReason, lookups, diskAtStart, blocked,
             callsAfterBlock, terminal, lastCase, inputFile, exitCode,
             outputAccess, answers, sameAnswers, slept>>
cascVars == <<prog, cEntries, cIdx, cPos, found, calls, flagged, cPc,
              lastCall, cInputFile, cExit, cOutput>>
flagVars == <<fProg, fEntries, fIdx, fPc, mismatch_found, annotations,
              fOfficial, fSinceDelay, fRaised, fExtracted, fFetched>>
reportVars == <<rPc, rEntries, rFile, rRecords>>
matchVars == <<xPc, xCall, xRet>>
vars == <<mergeVars, runVars, cascVars, flagVars, reportVars, matchVars>>

-----------------------------------------------------------------------------
(* Python string and dict primitives                                       *)

\* "" in Python
EMPTY == <<>>

\* truthiness of a str or list: non-empty
Truthy(v) == Len(v) > 0

RECURSIVE lstrip(_)
lstrip(s) == IF s # <<>> /\ Head(s) = " " THEN lstrip(Tail(s)) ELSE s

RECURSIVE rstrip(_)
rstrip(s) ==
    IF s # <<>> /\ s[Len(s)] = " " THEN rstrip(SubSeq(s, 1, Len(s) - 1)) ELSE s

\* str.strip()
strip(s) == rstrip(lstrip(s))

UpperToLower ==
    [A |-> "a", C |-> "c", P |-> "p", W |-> "w", J |-> "j", X |-> "x",
     Y |-> "y"]

\* str.lower()
lower(s) ==
    [i \in 1..Len(s) |->
        IF s[i] \in DOMAIN UpperToLower THEN UpperToLower[s[i]] ELSE s[i]]

\* token in s
Contains(s, token) ==
    \E i \in 1..(Len(s) - Len(token) + 1) :
        SubSeq(s, i, i + Len(token) - 1) = token

\* sep.join(list)
RECURSIVE join(_, _)
join(sep, l) ==
    IF l = <<>> THEN <<>>
    ELSE IF Len(l) = 1 THEN l[1]
    ELSE l[1] \o sep \o join(sep, Tail(l))

\* d.get(k, default)
Get(d, k, default) == IF k \in DOMAIN d THEN d[k] ELSE default

\* d[k] = v
Put(d, k, v) == [x \in (DOMAIN d) \cup {k} |-> IF x = k THEN v ELSE d[x]]

\* {} in Python
EmptyDict == [x \in {} |-> EMPTY]

\* truthiness of a dict: it has a key
DictTruthy(d) == DOMAIN d # {}

-----------------------------------------------------------------------------
(* validate.py: the two preserve-original merges                           *)

SpecialFields == {"ID", "ENTRYTYPE"}

\* validate.py:118  "if not orig_value and off_value"
\* (slip: the "not" left out)
FillsField_inverted(orig_value, off_value) ==
    Truthy(orig_value) /\ Truthy(off_value)
FillsField(orig_value, off_value) == ~Truthy(orig_value) /\ Truthy(off_value)

\* validate.py:121  the [MISMATCH] branch
IsMismatch(orig_value, off_value) ==
    Truthy(orig_value) /\ Truthy(off_value)
        /\ strip(orig_value) # strip(off_value)

\* A plausible slip: the overwrite policy of old_validate.py (any official
\* value replaces the original one).
merge_entries_overwriting(original, official) ==
    LET taken == {f \in (DOMAIN official) \ SpecialFields :
                     Truthy(official[f])}
    IN [f \in (DOMAIN original) \cup taken |->
           IF f \in taken THEN official[f] ELSE original[f]]

\* merge_entries_preserving_original: every field of `official` other than
\* ID and ENTRYTYPE is looked at once, and only merged[field] is assigned,
\* so the loop's iterations are independent of their order.
merge_entries_preserving_original(original, official) ==
    LET filled == {f \in (DOMAIN official) \ SpecialFields :
                      FillsField(Get(original, f, EMPTY), official[f])}
    IN [f \in (DOMAIN original) \cup filled |->
           IF f \in filled THEN official[f] ELSE original[f]]

\* The [MISMATCH] reports printed by merge_entries_preserving_original.
merge_entries_mismatches(original, official) ==
    {<<f, original[f], official[f]>> :
        f \in {g \in ((DOMAIN official) \ SpecialFields) \cap DOMAIN original :
                  IsMismatch(original[g], official[g])}}

\* A value of pub.bib: a str, or (for "author") possibly a list of str.
PStr(s) == [isList |-> FALSE, v |-> s]
PList(l) == [isList |-> TRUE, v |-> l]
NoPubVal == PStr(EMPTY)

possible_fields == <<"title", "author", "year", "venue", "abstract">>

VenueTokens ==
    { <<"c", "o", "n", "f">>,
      <<"c", "o", "n", "f", "e", "r", "e", "n", "c", "e">>,
      <<"p", "r", "o", "c">>,
      <<"w", "o", "r", "k", "s", "h", "o", "p">> }

\* validate.py:151
\* (slip: the tokens looked for without lower())
IsConferenceVenue_cased(pub_val) ==
    \E token \in VenueTokens : Contains(pub_val, token)
IsConferenceVenue(pub_val) ==
    \E token \in VenueTokens : Contains(lower(pub_val), token)

AndSep == <<" ", "a", "n", "d", " ">>

\* One iteration of the loop of merge_partial_pub_data (validate.py:141-178).
\* Result: [raised, merged].  list.strip() raises AttributeError
\* (validate.py:166 with a list-valued pub_val and a non-empty original).
merge_partial_field(m, partial_bib, field) ==
    LET pub == Get(partial_bib, field, NoPubVal)
        pub_val == pub.v
    IN  IF ~Truthy(pub_val) THEN [raised |-> FALSE, merged |-> m]
        ELSE IF field = "venue" THEN
            LET bt == Get(m, "booktitle", EMPTY)
                jr == Get(m, "journal", EMPTY)
                original_venue == IF Truthy(bt) THEN bt
                                  ELSE IF Truthy(jr) THEN jr ELSE EMPTY
            IN  IF ~Truthy(original_venue) THEN
                    [raised |-> FALSE,
                     merged |-> IF IsConferenceVenue(pub_val)
                                THEN Put(m, "booktitle", pub_val)
                                ELSE Put(m, "journal", pub_val)]
                ELSE [raised |-> FALSE, merged |-> m]
        ELSE IF field = "author" THEN
            LET orig_authors == Get(m, "author", EMPTY)
            IN  IF ~Truthy(orig_authors) THEN
                    [raised |-> FALSE,
                     merged |-> Put(m, "author",
                                    IF pub.isList THEN join(AndSep, pub_val)
                                    ELSE pub_val)]
                ELSE [raised |-> pub.isList, merged |-> m]
        ELSE
            LET original_val == Get(m, field, EMPTY)
            IN  IF FillsField(original_val, pub_val)
                THEN [raised |-> FALSE, merged |-> Put(m, field, pub_val)]
                ELSE [raised |-> FALSE, merged |-> m]

RECURSIVE merge_partial_from(_, _, _)
merge_partial_from(m, partial_bib, i) ==
    IF i > Len(possible_fields) THEN [raised |-> FALSE, merged |-> m]
    ELSE LET r == merge_partial_field(m, partial_bib, possible_fields[i])
         IN  IF r.raised THEN r
             ELSE merge_partial_from(r.merged, partial_bib, i + 1)

\* merge_partial_pub_data(original, partial_bib): [raised, merged]
merge_partial_pub_data(original, partial_bib) ==
    merge_partial_from(original, partial_bib, 1)

\* The [MISMATCH] report one iteration of that loop prints, if any
\* (validate.py:155-157, 166-168, 174-178), as <<field, original, partial>>.
partial_field_mismatch(m, partial_bib, field) ==
    LET pub == Get(partial_bib, field, NoPubVal)
        pub_val == pub.v
    IN  IF ~Truthy(pub_val) THEN {}
        ELSE IF field = "venue" THEN
            LET bt == Get(m, "booktitle", EMPTY)
                jr == Get(m, "journal", EMPTY)
                original_venue == IF Truthy(bt) THEN bt
                                  ELSE IF Truthy(jr) THEN jr ELSE EMPTY
            IN  IF IsMismatch(original_venue, pub_val)
                THEN {<<"venue", original_venue, pub_val>>} ELSE {}
        ELSE IF pub.isList THEN {}
        ELSE IF IsMismatch(Get(m, field, EMPTY), pub_val)
        THEN {<<field, Get(m, field, EMPTY), pub_val>>}
        ELSE {}

\* The reports merge_partial_pub_data prints before it returns or raises.
RECURSIVE merge_partial_mismatches_from(_, _, _)
merge_partial_mismatches_from(m, partial_bib, i) ==
    IF i > Len(possible_fields) THEN {}
    ELSE LET r == merge_partial_field(m, partial_bib, possible_fields[i])
         IN  IF r.raised THEN {}
             ELSE partial_field_mismatch(m, partial_bib, possible_fields[i])
                  \cup merge_partial_mismatches_from(r.merged, partial_bib,
                                                     i + 1)

merge_partial_mismatches(original, partial_bib) ==
    merge_partial_mismatches_from(original, partial_bib, 1)

-----------------------------------------------------------------------------
(* The merges as pure functions: inputs drawn from bounded sets            *)

Opt(k, vals) == {EmptyDict} \cup {Put(EmptyDict, k, v) : v \in vals}

\* the union of two dicts with disjoint keys
Both(a, b) ==
    [k \in (DOMAIN a) \cup (DOMAIN b) |-> IF k \in DOMAIN a THEN a[k] ELSE b[k]]

Base(id) == [ID |-> id, ENTRYTYPE |-> <<"m">>]

MergeOriginals ==
    { Both(Base(<<"a">>), Both(Both(t, a), Both(b, j))) :
        t \in Opt("title", {EMPTY, <<"x">>, <<"x", " ">>}),
        a \in Opt("author", {EMPTY, <<"x">>}),
        b \in Opt("booktitle", {EMPTY, <<"x">>}),
        j \in Opt("journal", {EMPTY, <<"x">>}) }

MergeOfficials ==
    { Both(Base(<<"z">>), Both(t, Both(a, n))) :
        t \in Opt("title", {EMPTY, <<" ">>, <<"x">>, <<"y">>}),
        a \in Opt("author", {<<"y">>}),
        n \in Opt("note", {<<"y">>}) }

MergePartialsCore ==
    { Both(t, Both(a, v)) :
        t \in Opt("title", {PStr(<<"x">>), PStr(<<"y">>)}),
        a \in Opt("author", {PStr(<<"y">>), PList(<<>>),
                             PList(<<(<<"x">>), (<<"y">>)>>)}),
        v \in Opt("venue", {PStr(<<"P", "r", "o", "c">>), PStr(<<"j">>),
                            PStr(<<"x", " ", "c", "o", "n", "f">>)}) }

\* pub.bib also has keys the merge does not look at (pages, publisher, ...)
MergePartials ==
    { Both(c, Both(y, g)) :
        c \in MergePartialsCore,
        y \in Opt("year", {PStr(<<"1">>)}),
        g \in Opt("pages", {PStr(<<"2">>)}) }

\* no second merge yet
NotMerged == [raised |-> FALSE, merged |-> EmptyDict]

MergeInit ==
    /\ mPc = "input"
    /\ mOriginal \in MergeOriginals
    /\ \/ mOfficial \in MergeOfficials /\ mPartial = EmptyDict
       \/ mOfficial = EmptyDict /\ mPartial \in MergePartials
    /\ mOutput = EmptyDict
    /\ mRaised = FALSE
    /\ mReports = {}
    /\ mAgain = NotMerged

\* validate.py:263-266
DoMergeOfficial ==
    /\ mPc = "input"
    /\ DictTruthy(mOfficial)
    /\ mOutput' = merge_entries_preserving_original(mOriginal, mOfficial)
    /\ mRaised' = FALSE
    /\ mReports' = merge_entries_mismatches(mOriginal, mOfficial)
    /\ mPc' = "official"
    /\ UNCHANGED <<mOriginal, mOfficial, mPartial, mAgain>>
    /\ UNCHANGED <<runVars, cascVars, flagVars, reportVars, matchVars>>

\* validate.py:279-281
DoMergePartial ==
    /\ mPc = "input"
    /\ DictTruthy(mPartial)
    /\ LET r == merge_partial_pub_data(mOriginal, mPartial)
       IN  /\ mRaised' = r.raised
           /\ mOutput' = IF r.raised THEN mOutput ELSE r.merged
    /\ mReports' = merge_partial_mismatches(mOriginal, mPartial)
    /\ mPc' = "partial"
    /\ UNCHANGED <<mOriginal, mOfficial, mPartial, mAgain>>
    /\ UNCHANGED <<runVars, cascVars, flagVars, reportVars, matchVars>>

\* merge_entries_preserving_original(merged, official) on the entry that
\* merge_entries_preserving_original(original, official) returned
DoMergeOfficialAgain ==
    /\ mPc = "official"
    /\ mAgain' = [raised |-> FALSE,
                  merged |-> merge_entries_preserving_original(mOutput,
                                                               mOfficial)]
    /\ mPc' = "official again"
    /\ UNCHANGED <<mOriginal, mOfficial, mPartial, mOutput, mRaised,
                   mReports>>
    /\ UNCHANGED <<runVars, cascVars, flagVars, reportVars, matchVars>>

\* merge_partial_pub_data(merged, partial_bib) on the entry that
\* merge_partial_pub_data(original, partial_bib) returned
DoMergePartialAgain ==
    /\ mPc = "partial"
    /\ ~mRaised
    /\ mAgain' = merge_partial_pub_data(mOutput, mPartial)
    /\ mPc' = "partial again"
    /\ UNCHANGED <<mOriginal, mOfficial, mPartial, mOutput, mRaised,
                   mReports>>
    /\ UNCHANGED <<runVars, cascVars, flagVars, reportVars, matchVars>>

MergeIdle ==
    /\ mPc = "off" /\ mOriginal = EmptyDict /\ mOfficial = EmptyDict
    /\ mPartial = EmptyDict /\ mOutput = EmptyDict /\ mRaised = FALSE
    /\ mReports = {} /\ mAgain = NotMerged

-----------------------------------------------------------------------------
(* validate.py / old_validate.py: main()                                   *)
(*                                                                         *)
(* The output file is [exists, entries]: the entries bibtexparser reads    *)
(* from it, in file order.  open(outfile, "w") truncates the file before   *)
(* f.write() fills it, so a write is two steps.  A run is one process; a   *)
(* later run is given the same bibliography and starts from whatever the   *)
(* earlier ones left on disk.  Every entry bibtexparser loads has an "ID",  *)
(* so the fallback id of validate.py:220 is never taken.                   *)

MaxEntries == 2
MaxRuns == 2

Variants == {"validate", "old_validate"}

RunEntries ==
    { [ID |-> <<"a">>, ENTRYTYPE |-> <<"m">>, title |-> <<"x">>,
       author |-> <<"x">>],
      [ID |-> <<"b">>, ENTRYTYPE |-> <<"m">>, title |-> <<" ">>],
      [ID |-> <<"c">>, title |-> <<"y">>] }

RECURSIVE SeqsUpTo(_, _)
SeqsUpTo(S, n) ==
    IF n = 0 THEN {<<>>}
    ELSE LET shorter == SeqsUpTo(S, n - 1)
         IN  shorter \cup {Append(q, e) : q \in shorter, e \in S}

\* A bibliography file may hold no entry at all.
Bibliographies == SeqsUpTo(RunEntries, MaxEntries)

\* What bibtexparser.loads(pub.bibtex) does: raise, or give its entries.
NoBibtex == [present |-> FALSE, raises |-> FALSE, entries |-> <<>>]
BadBibtex == [present |-> TRUE, raises |-> TRUE, entries |-> <<>>]
Bibtex(es) == [present |-> TRUE, raises |-> FALSE, entries |-> es]

OfficialEntry ==
    [ID |-> <<"z">>, ENTRYTYPE |-> <<"n">>, title |-> <<"y">>,
     author |-> <<"y">>, note |-> <<"y">>]

\* What scholarly.search_single_pub returns when it returns: None, or a
\* publication (an object with attributes, or a dict).
NonePub == [isNone |-> TRUE, bibtex |-> NoBibtex, hasBibAttr |-> FALSE,
            isDict |-> FALSE, bib |-> EmptyDict]
Pub(bibtex, hasBibAttr, isDict, bib) ==
    [isNone |-> FALSE, bibtex |-> bibtex, hasBibAttr |-> hasBibAttr,
     isDict |-> isDict, bib |-> bib]

PartialBibs ==
    { EmptyDict,
      [author |-> PStr(<<"y">>), venue |-> PStr(<<"P", "r", "o", "c">>)],
      [title |-> PStr(<<"y">>),
       author |-> PList(<<(<<"x">>), (<<"y">>)>>)] }

Pubs ==
    {NonePub}
    \cup {Pub(b, TRUE, FALSE, EmptyDict) :
            b \in {BadBibtex, Bibtex(<<>>), Bibtex(<<OfficialEntry>>)}}
    \cup {Pub(NoBibtex, TRUE, FALSE, pb) : pb \in PartialBibs}
    \cup {Pub(NoBibtex, FALSE, TRUE, pb) : pb \in PartialBibs}
    \cup {Pub(NoBibtex, FALSE, FALSE, EmptyDict)}

RECURSIVE IdsOf(_)
IdsOf(entries) ==
    IF entries = <<>> THEN {}
    ELSE {Head(entries).ID} \cup IdsOf(Tail(entries))

\* load_existing_output_db
load_existing_output_db(file) == IF file.exists THEN file.entries ELSE <<>>

\* validate.py:209  {e["ID"] for e in existing_db.entries if "ID" in e}
\* (slip: the existing output is not consulted)
ProcessedIdsOf_empty(entries) == {}
ProcessedIdsOf(entries) == IdsOf(entries)

\* validate.py:211-213  corrected_db.entries = list(existing_db.entries)
\* (slip: the list starts empty whatever the output file holds)
InitialEntries_fresh(existing) == <<>>
InitialEntries(existing) == existing

\* validate.py:223  "if entry_id in processed_ids"
\* (slip: the skip never taken)
AlreadyProcessed_never(entry_id, ids) == FALSE
AlreadyProcessed(entry_id, ids) == entry_id \in ids

\* validate.py:234, 287  processed_ids.add(entry_id)
\* (slip: the set is assigned instead of extended)
AddProcessed_replace(ids, entry_id) == {entry_id}
AddProcessed(ids, entry_id) == ids \cup {entry_id}

\* validate.py:50, old_validate.py:52  DELAY_BETWEEN_QUERIES, in tenths of a
\* second
\* (slip: a delay of a minute)
DELAY_BETWEEN_QUERIES_minute(v) == 600
DELAY_BETWEEN_QUERIES(v) == IF v = "validate" THEN 150 ELSE 50

\* validate.py:235, 288: control goes to write_bib_to_disk once the entry
\* is appended and marked
\* (slip: the loop goes on without the write)
PcAfterAppend_nowrite == "loop"
PcAfterAppend == "write"

\* validate.py:246  sys.exit(1) once the partial results are written
\* (slip: the loop goes on after the write)
AfterBlocked_continue == "next"
AfterBlocked == "exit"

\* parse_official_bibtex(raw_bibtex, original_id, original_type)
parse_official_bibtex(bibtex, original_id, original_type) ==
    IF bibtex.raises THEN EmptyDict
    ELSE LET new_entry == IF bibtex.entries # <<>> THEN bibtex.entries[1]
                          ELSE EmptyDict
         IN  Put(Put(new_entry, "ID", original_id),
                 "ENTRYTYPE", original_type)

\* validate.py:273-277 / old_validate.py:199-204
PartialBibOf(pub) ==
    IF pub.hasBibAttr \/ pub.isDict THEN pub.bib ELSE EmptyDict

\* "merged" of old_validate.py main() is a local of the function: unbound
\* until the partial branch first assigns it, and kept from then on.
Unbound == [bound |-> FALSE, e |-> EmptyDict]
Bound(e) == [bound |-> TRUE, e |-> e]

\* old_validate.py:208-225: the overwriting partial merge
old_merge_partial(entry, partial_bib) ==
    LET m1 == IF "title" \in DOMAIN partial_bib
              THEN Put(entry, "title", partial_bib["title"].v) ELSE entry
        m2 == IF "author" \in DOMAIN partial_bib
              THEN Put(m1, "author",
                       IF partial_bib["author"].isList
                       THEN join(AndSep, partial_bib["author"].v)
                       ELSE partial_bib["author"].v)
              ELSE m1
        m3 == IF "year" \in DOMAIN partial_bib
              THEN Put(m2, "year", partial_bib["year"].v) ELSE m2
    IN  IF "venue" \in DOMAIN partial_bib
        THEN IF IsConferenceVenue(partial_bib["venue"].v)
             THEN Put(m3, "booktitle", partial_bib["venue"].v)
             ELSE Put(m3, "journal", partial_bib["venue"].v)
        ELSE m3

\* old_validate.py:206-225 applied to the inputs of the merge harness
DoMergeOld ==
    /\ mPc = "input"
    /\ DictTruthy(mPartial)
    /\ mOutput' = old_merge_partial(mOriginal, mPartial)
    /\ mRaised' = FALSE
    /\ mReports' = {}
    /\ mPc' = "old"
    /\ UNCHANGED <<mOriginal, mOfficial, mPartial, mAgain>>
    /\ UNCHANGED <<runVars, cascVars, flagVars, reportVars, matchVars>>

\* validate.py:253-284: what the loop body appends for a returned pub.
\* [raised, appended, merged]
ProcessPubNew(entry, pub, m) ==
    LET keep == [raised |-> FALSE, appended |-> <<entry>>, merged |-> m]
        entry_id == entry.ID
        entry_type == Get(entry, "ENTRYTYPE", <<"m", "i", "s", "c">>)
    IN  IF pub.isNone THEN keep
        ELSE IF pub.bibtex.present THEN
            LET official_bib ==
                    parse_official_bibtex(pub.bibtex, entry_id, entry_type)
            IN  IF DictTruthy(official_bib)
                THEN [raised |-> FALSE,
                      appended |->
                        <<merge_entries_preserving_original(entry,
                                                            official_bib)>>,
                      merged |-> m]
                ELSE keep
        ELSE
            LET partial_bib == PartialBibOf(pub)
            IN  IF DictTruthy(partial_bib)
                THEN LET r == merge_partial_pub_data(entry, partial_bib)
                     IN  [raised |-> r.raised,
                          appended |-> IF r.raised THEN <<>>
                                       ELSE <<r.merged>>,
                          merged |-> m]
                ELSE keep

\* old_validate.py:175-233.  Line 233 appends "merged" once more after the
\* partial branch, whichever arm ran: an UnboundLocalError while "merged"
\* is unbound, a second append otherwise.
ProcessPubOld(entry, pub, m) ==
    LET entry_id == entry.ID
        entry_type == Get(entry, "ENTRYTYPE", <<"m", "i", "s", "c">>)
    IN  IF pub.isNone
        THEN [raised |-> FALSE, appended |-> <<entry>>, merged |-> m]
        ELSE IF pub.bibtex.present THEN
            LET new_entry ==
                    parse_official_bibtex(pub.bibtex, entry_id, entry_type)
            IN  [raised |-> FALSE,
                 appended |-> IF DictTruthy(new_entry) THEN <<new_entry>>
                              ELSE <<entry>>,
                 merged |-> m]
        ELSE
            LET partial_bib == PartialBibOf(pub)
            IN  IF DictTruthy(partial_bib)
                THEN LET mg == old_merge_partial(entry, partial_bib)
                     IN  [raised |-> FALSE, appended |-> <<mg, mg>>,
                          merged |-> Bound(mg)]
                ELSE IF m.bound
                     THEN [raised |-> FALSE, appended |-> <<entry, m.e>>,
                           merged |-> m]
                     ELSE [raised |-> TRUE, appended |-> <<>>, merged |-> m]

ProcessPub(v, entry, pub, m) ==
    IF v = "validate" THEN ProcessPubNew(entry, pub, m)
    ELSE ProcessPubOld(entry, pub, m)

NoFile == [exists |-> FALSE, entries |-> <<>>]

\* What the lookup gave for an entry (history): no publication
\* (validate.py:253), an official BibTeX that does not parse into an entry
\* (parse_official_bibtex raising or finding no entries), no BibTeX and no
\* partial data (validate.py:282-284), or data to merge.
LookupCase(pub) ==
    IF pub.isNone THEN "no_pub"
    ELSE IF pub.bibtex.present
    THEN IF pub.bibtex.raises \/ pub.bibtex.entries = <<>> THEN "unparsed"
         ELSE "data"
    ELSE IF ~DictTruthy(PartialBibOf(pub)) THEN "no_partial"
    ELSE "data"

NoCase == [entry |-> 0, case |-> "none"]

\* no title has been answered yet
NoAnswers == [x \in {} |-> NonePub]

\* The status a process ends with: none while it runs, the argument of
\* sys.exit(), 1 when an exception reaches the top of the script (the
\* interpreter prints the traceback), 0 when the script runs off its end.
Running == <<>>
sys_exit(code) == <<code>>
Uncaught == <<1>>
EndOfScript == <<0>>

\* What is at the input path when a process starts: a readable file, no
\* file (os.path.isfile is false / open raises FileNotFoundError), or a
\* file that open() or the decoding refuses.
BadInputs == {"missing", "unreadable"}

\* validate.py:200-204: sys.exit(1) when the path is no file, else open()
\* raises and nothing catches it
InputFailure(file) ==
    IF file = "missing" THEN sys_exit(1) ELSE Uncaught

\* validate.py:208 load_existing_output_db(args.output) stands after the
\* exit of 200-202 and the open of 203-204
\* (slip: the output is loaded before the input is looked at)
LoadsOutput_always(file) == TRUE
LoadsOutput(file) == file = "ok"

\* validate.py:291-309: the diff opens the input (293) and the output
\* (295) again; the output file is there only if this run or an earlier
\* one wrote it, otherwise open() raises FileNotFoundError.
DiffExit(file) == IF file.exists THEN EndOfScript ELSE Uncaught

RunInit ==
    /\ variant \in Variants
    /\ input \in Bibliographies
    /\ disk = NoFile
    /\ pc = "idle"
    /\ idx = 1
    /\ processed_ids = {}
    /\ corrected = <<>>
    /\ merged = Unbound
    /\ after = "next"
    /\ run = 0
    /\ exitReason = "none"
    /\ lookups = <<>>
    /\ diskAtStart = NoFile
    /\ blocked = FALSE
    /\ callsAfterBlock = 0
    /\ terminal = {}
    /\ lastCase = NoCase
    /\ inputFile = "ok"
    /\ exitCode = Running
    /\ outputAccess = {}
    /\ answers = NoAnswers
    /\ sameAnswers = TRUE
    /\ slept = {}

\* validate.py:199-204: a process starts and the input is missing or
\* cannot be read; it ends before it has loaded or built anything
StartFails ==
    /\ pc \in {"idle", "exited"}
    /\ run < MaxRuns
    /\ run' = run + 1
    /\ \E file \in BadInputs :
        /\ inputFile' = file
        /\ exitCode' = InputFailure(file)
        /\ outputAccess' = IF LoadsOutput(file) THEN {"load"} ELSE {}
    /\ pc' = "exited"
    /\ exitReason' = "no_input"
    /\ idx' = 1
    /\ processed_ids' = {}
    /\ corrected' = <<>>
    /\ merged' = Unbound
    /\ after' = "next"
    /\ lookups' = <<>>
    /\ diskAtStart' = NoFile
    /\ blocked' = FALSE
    /\ callsAfterBlock' = 0
    /\ lastCase' = NoCase
    /\ UNCHANGED <<variant, input, disk, terminal>>
    /\ UNCHANGED <<answers, sameAnswers>>
    /\ slept' = {}
    /\ UNCHANGED <<mergeVars, cascVars, flagVars, reportVars, matchVars>>

\* validate.py:199-216: a process starts and loads the input and the
\* existing output
StartRun ==
    /\ pc \in {"idle", "exited"}
    /\ run < MaxRuns
    /\ run' = run + 1
    /\ LET existing == load_existing_output_db(disk)
       IN  /\ processed_ids' = ProcessedIdsOf(existing)
           /\ corrected' = InitialEntries(existing)
    /\ idx' = 1
    /\ pc' = "loop"
    /\ merged' = Unbound
    /\ after' = "next"
    /\ exitReason' = "none"
    /\ lookups' = <<>>
    /\ diskAtStart' = disk
    /\ blocked' = FALSE
    /\ callsAfterBlock' = 0
    /\ lastCase' = NoCase
    /\ inputFile' = "ok"
    /\ exitCode' = Running
    /\ outputAccess' = IF LoadsOutput("ok") THEN {"load"} ELSE {}
    /\ UNCHANGED <<variant, input, disk, terminal>>
    /\ UNCHANGED <<answers, sameAnswers>>
    /\ slept' = {}
    /\ UNCHANGED <<mergeVars, cascVars, flagVars, reportVars, matchVars>>

\* validate.py:223-225
LoopSkip ==
    /\ pc = "loop"
    /\ idx <= Len(input)
    /\ AlreadyProcessed(input[idx].ID, processed_ids)
    /\ idx' = idx + 1
    /\ UNCHANGED <<variant, input, disk, pc, processed_ids, corrected,
                   merged, after, run, exitReason, lookups, diskAtStart,
                   blocked, callsAfterBlock, terminal>>
    /\ UNCHANGED lastCase
    /\ UNCHANGED <<inputFile, exitCode, outputAccess>>
    /\ UNCHANGED <<answers, sameAnswers>>
    /\ UNCHANGED slept
    /\ UNCHANGED <<mergeVars, cascVars, flagVars, reportVars, matchVars>>

TitleOf(entry) == strip(Get(entry, "title", EMPTY))

\* validate.py:230-237
LoopNoTitle ==
    /\ pc = "loop"
    /\ idx <= Len(input)
    /\ ~AlreadyProcessed(input[idx].ID, processed_ids)
    /\ ~Truthy(TitleOf(input[idx]))
    /\ corrected' = Append(corrected, input[idx])
    /\ processed_ids' = AddProcessed(processed_ids, input[idx].ID)
    /\ pc' = PcAfterAppend
    /\ after' = "next"
    /\ UNCHANGED <<variant, input, disk, idx, merged, run, exitReason,
                   lookups, diskAtStart, blocked, callsAfterBlock, terminal>>
    /\ UNCHANGED lastCase
    /\ UNCHANGED <<inputFile, exitCode, outputAccess>>
    /\ UNCHANGED <<answers, sameAnswers>>
    /\ UNCHANGED slept
    /\ UNCHANGED <<mergeVars, cascVars, flagVars, reportVars, matchVars>>

\* validate.py:230-241: an entry with a title goes to the search
LoopHasTitle ==
    /\ pc = "loop"
    /\ idx <= Len(input)
    /\ ~AlreadyProcessed(input[idx].ID, processed_ids)
    /\ Truthy(TitleOf(input[idx]))
    /\ pc' = "search"
    /\ UNCHANGED <<variant, input, disk, idx, processed_ids, corrected,
                   merged, after, run, exitReason, lookups, diskAtStart,
                   blocked, callsAfterBlock, terminal>>
    /\ UNCHANGED lastCase
    /\ UNCHANGED <<inputFile, exitCode, outputAccess>>
    /\ UNCHANGED <<answers, sameAnswers>>
    /\ UNCHANGED slept
    /\ UNCHANGED <<mergeVars, cascVars, flagVars, reportVars, matchVars>>

Called ==
    /\ lookups' = Append(lookups, idx)
    /\ callsAfterBlock' = callsAfterBlock + (IF blocked THEN 1 ELSE 0)

\* validate.py:242-246: MaxTriesExceededException
SearchBlocked ==
    /\ pc = "search"
    /\ Called
    /\ blocked' = TRUE
    /\ pc' = "write"
    /\ after' = AfterBlocked
    /\ exitReason' = "blocked"
    /\ UNCHANGED <<variant, input, disk, idx, processed_ids, corrected,
                   merged, run, diskAtStart, terminal>>
    /\ UNCHANGED lastCase
    /\ UNCHANGED <<inputFile, exitCode, outputAccess>>
    /\ UNCHANGED <<answers, sameAnswers>>
    /\ UNCHANGED slept
    /\ UNCHANGED <<mergeVars, cascVars, flagVars, reportVars, matchVars>>

\* validate.py:247-251: any other exception of the search
SearchError ==
    /\ pc = "search"
    /\ Called
    /\ pc' = "write"
    /\ after' = "exit"
    /\ exitReason' = "error"
    /\ UNCHANGED <<variant, input, disk, idx, processed_ids, corrected,
                   merged, run, diskAtStart, blocked, terminal>>
    /\ UNCHANGED lastCase
    /\ UNCHANGED <<inputFile, exitCode, outputAccess>>
    /\ UNCHANGED <<answers, sameAnswers>>
    /\ UNCHANGED slept
    /\ UNCHANGED <<mergeVars, cascVars, flagVars, reportVars, matchVars>>

\* validate.py:253-288: the search returned; merge, append, mark
SearchReturns ==
    /\ pc = "search"
    /\ Called
    /\ \E pub \in Pubs :
        LET r == ProcessPub(variant, input[idx], pub, merged)
        IN  /\ lastCase' = [entry |-> idx, case |-> LookupCase(pub)]
            /\ IF r.raised
               THEN /\ pc' = "exited"
                    /\ exitReason' = "exception"
                    /\ exitCode' = Uncaught
                    /\ UNCHANGED <<corrected, processed_ids, merged, after>>
               ELSE /\ corrected' = corrected \o r.appended
                    /\ merged' = r.merged
                    /\ processed_ids' =
                         AddProcessed(processed_ids, input[idx].ID)
                    /\ pc' = PcAfterAppend
                    /\ after' = "next"
                    /\ UNCHANGED <<exitReason, exitCode>>
            /\ LET title == TitleOf(input[idx])
               IN  IF ~sameAnswers
                   THEN UNCHANGED <<answers, sameAnswers>>
                   ELSE IF title \notin DOMAIN answers
                   THEN /\ answers' = Put(answers, title, pub)
                        /\ UNCHANGED sameAnswers
                   ELSE IF answers[title] = pub
                   THEN UNCHANGED <<answers, sameAnswers>>
                   ELSE /\ sameAnswers' = FALSE
                        /\ answers' = NoAnswers
    /\ UNCHANGED slept
    /\ UNCHANGED <<variant, input, disk, idx, run, diskAtStart, blocked,
                   terminal, inputFile, outputAccess>>
    /\ UNCHANGED <<mergeVars, cascVars, flagVars, reportVars, matchVars>>

\* validate.py:74  open(outfile, "w") truncates the file
WriteOpen ==
    /\ pc = "write"
    /\ disk' = [exists |-> TRUE, entries |-> <<>>]
    /\ pc' = "writing"
    /\ UNCHANGED <<variant, input, idx, processed_ids, corrected, merged,
                   after, run, exitReason, lookups, diskAtStart, blocked,
                   callsAfterBlock, terminal>>
    /\ UNCHANGED lastCase
    /\ outputAccess' = outputAccess \cup {"write"}
    /\ UNCHANGED <<inputFile, exitCode>>
    /\ UNCHANGED <<answers, sameAnswers>>
    /\ UNCHANGED slept
    /\ UNCHANGED <<mergeVars, cascVars, flagVars, reportVars, matchVars>>

RECURSIVE Elems(_)
Elems(q) == IF q = <<>> THEN {} ELSE {Head(q)} \cup Elems(Tail(q))

\* validate.py:75  f.write(bib_str) and the close; then the sleep and the
\* next iteration (validate.py:236-237, 289), or sys.exit(1)
WriteData ==
    /\ pc = "writing"
    /\ disk' = [exists |-> TRUE, entries |-> corrected]
    /\ IF after = "next"
       THEN /\ pc' = "loop"
            /\ idx' = idx + 1
            /\ terminal' = terminal \cup Elems(corrected)
            /\ slept' = slept \cup {DELAY_BETWEEN_QUERIES(variant)}
            /\ UNCHANGED exitCode
       ELSE /\ pc' = "exited"
            /\ exitCode' = sys_exit(1)
            /\ UNCHANGED <<idx, terminal, slept>>
    /\ UNCHANGED <<variant, input, processed_ids, corrected, merged, after,
                   run, exitReason, lookups, diskAtStart, blocked,
                   callsAfterBlock>>
    /\ UNCHANGED lastCase
    /\ UNCHANGED <<inputFile, outputAccess>>
    /\ UNCHANGED <<answers, sameAnswers>>
    /\ UNCHANGED <<mergeVars, cascVars, flagVars, reportVars, matchVars>>

\* validate.py:291-309: all entries seen; the diff is printed
LoopEnd ==
    /\ pc = "loop"
    /\ idx > Len(input)
    /\ pc' = "exited"
    /\ exitReason' = "finished"
    /\ exitCode' = DiffExit(disk)
    /\ outputAccess' = outputAccess \cup {"diff"}
    /\ UNCHANGED <<variant, input, disk, idx, processed_ids, corrected,
                   merged, after, run, lookups, diskAtStart, blocked,
                   callsAfterBlock, terminal>>
    /\ UNCHANGED lastCase
    /\ UNCHANGED inputFile
    /\ UNCHANGED <<answers, sameAnswers>>
    /\ UNCHANGED slept
    /\ UNCHANGED <<mergeVars, cascVars, flagVars, reportVars, matchVars>>

\* validate.py:312-317: KeyboardInterrupt (or the process being killed) at
\* any point of main(); nothing is written on the way out
Interrupt ==
    /\ pc \in {"loop", "search", "write", "writing"}
    /\ pc' = "exited"
    /\ exitReason' = "interrupt"
    /\ exitCode' = sys_exit(1)
    /\ UNCHANGED <<variant, input, disk, idx, processed_ids, corrected,
                   merged, after, run, lookups, diskAtStart, blocked,
                   callsAfterBlock, terminal>>
    /\ UNCHANGED lastCase
    /\ UNCHANGED <<inputFile, outputAccess>>
    /\ UNCHANGED <<answers, sameAnswers>>
    /\ UNCHANGED slept
    /\ UNCHANGED <<mergeVars, cascVars, flagVars, reportVars, matchVars>>

RunIdle ==
    /\ variant = "none" /\ input = <<>> /\ disk = NoFile /\ pc = "off"
    /\ idx = 0 /\ processed_ids = {} /\ corrected = <<>>
    /\ merged = Unbound /\ after = "none" /\ run = 0
    /\ exitReason = "none" /\ lookups = <<>> /\ diskAtStart = NoFile
    /\ blocked = FALSE /\ callsAfterBlock = 0 /\ terminal = {}
    /\ lastCase = NoCase
    /\ inputFile = "none" /\ exitCode = Running /\ outputAccess = {}
    /\ answers = NoAnswers /\ sameAnswers = TRUE /\ slept = {}

-----------------------------------------------------------------------------
(* crossref_arxiv.py check_bibliography, cvf_openreview.py main,           *)
(* final_filter.py main: the cascades                                      *)

MaxCascEntries == 2
MaxCands == 2

TITLE_MATCH_THRESHOLD == 75

Progs == {"crossref_arxiv", "cvf_openreview", "final_filter"}

\* The adapters of each script, in the order its loop body tries them.
Adapters ==
    [crossref_arxiv |-> <<"find_on_crossref", "find_on_arxiv">>,
     cvf_openreview |-> <<"search_cvf", "search_neurips",
                          "search_openreview">>,
     final_filter |-> <<"search_cvf", "search_neurips", "search_openreview",
                        "search_google_scholar">>]

\* crossref_arxiv.py:160-164, 217-220: only these two also check authors
\* (slip: the author check left out)
RequireAuthorMatch_never(adapter) == FALSE
RequireAuthorMatch(adapter) ==
    adapter \in {"find_on_crossref", "find_on_arxiv"}

\* A candidate as the matcher sees it: the fuzzy ratio of its title against
\* the entry's (0..100) and whether authors_overlap_fuzzy accepts it.
Ratios == {74, 75}
Candidates == [malformed : {FALSE}, ratio : Ratios, authors_ok : BOOLEAN]

\* A candidate the adapter's loop body raises on: an ArXiv entry with an
\* empty <title/> (title_elt.text is None, crossref_arxiv.py:206), a
\* Crossref author whose "given" is null (crossref_arxiv.py:155), an
\* OpenReview note or a Scholar result whose title is not a string
\* (cvf_openreview.py:37 via 204, final_filter.py:161-163), or the Scholar
\* generator failing at that result.
MalformedCandidate == [malformed |-> TRUE, ratio |-> 0, authors_ok |-> FALSE]

\* search_cvf and search_neurips read link texts out of parsed HTML
\* (get_text), which are always strings.
CanBeMalformed(adapter) == adapter \notin {"search_cvf", "search_neurips"}

CandidatesOf(adapter) ==
    IF CanBeMalformed(adapter) THEN Candidates \cup {MalformedCandidate}
    ELSE Candidates

\* What the request gives: an exception (transport, timeout, a body that
\* does not parse), or an HTTP status with the candidates read from the
\* body, in the order returned.
Responses(adapter) ==
    {[raises |-> TRUE, status |-> 0, cands |-> <<>>]}
    \cup {[raises |-> FALSE, status |-> 500, cands |-> <<>>]}
    \cup {[raises |-> FALSE, status |-> 200, cands |-> c] :
            c \in SeqsUpTo(CandidatesOf(adapter), MaxCands)}

\* crossref_arxiv.py:121, cvf_openreview.py:112  "ratio >= THRESHOLD"
TitleAccepted(ratio) == ratio >= TITLE_MATCH_THRESHOLD

CandidateAccepted(adapter, c) ==
    TitleAccepted(c.ratio) /\ (RequireAuthorMatch(adapter) => c.authors_ok)

\* The "for" loop of an adapter over the candidates, from position i, inside
\* its try: an accepted candidate returns True, an exception on a candidate
\* lands in "except Exception" and returns False.  [result, evaluated]
RECURSIVE EvalCandidates(_, _, _)
EvalCandidates(adapter, cands, i) ==
    IF i > Len(cands) THEN [result |-> FALSE, evaluated |-> Len(cands)]
    ELSE IF cands[i].malformed THEN [result |-> FALSE, evaluated |-> i]
    ELSE IF CandidateAccepted(adapter, cands[i])
    THEN [result |-> TRUE, evaluated |-> i]
    ELSE EvalCandidates(adapter, cands, i + 1)

\* find_on_crossref, find_on_arxiv, search_cvf, search_neurips,
\* search_openreview, search_google_scholar: [result, evaluated]; every
\* failure of the request is False.
AdapterRun(adapter, resp) ==
    IF resp.raises \/ resp.status # 200
    THEN [result |-> FALSE, evaluated |-> 0]
    ELSE EvalCandidates(adapter, resp.cands, 1)

AdapterResult(adapter, resp) == AdapterRun(adapter, resp).result

\* crossref_arxiv.py:265 "if not found_xref", cvf_openreview.py:247, 251
\* "if not found", final_filter.py:245-255 "if search_x(): continue"
\* (slip: the next adapter is called whatever the earlier ones found)
InvokeNext_always(found_so_far) == TRUE
InvokeNext(found_so_far) == ~found_so_far

\* crossref_arxiv.py:268, cvf_openreview.py:255, final_filter.py:257
\* (slip: the entry is flagged whatever the adapters found)
ShouldFlag_always(found_so_far) == TRUE
ShouldFlag(found_so_far) == ~found_so_far

\* An entry of the loop: its id and its (stripped) title; a title that is
\* missing, empty or None is EMPTY.
CascEntries ==
    { [id |-> "a", title |-> <<"x">>],
      [id |-> "c", title |-> EMPTY] }

NoCall == [cands |-> <<>>, evaluated |-> 0]

CascInit ==
    /\ prog \in Progs
    /\ cEntries \in SeqsUpTo(CascEntries, MaxCascEntries) \ {<<>>}
    /\ cIdx = 1
    /\ cPos = 1
    /\ found = FALSE
    /\ calls = <<>>
    /\ flagged = <<>>
    /\ cPc = "start"
    /\ lastCall = NoCall
    /\ cInputFile \in {"ok"} \cup BadInputs
    /\ cExit = Running
    /\ cOutput = "untouched"

\* crossref_arxiv.py:238-239, cvf_openreview.py:234 (49), final_filter.py:231
\* (195): the input is opened and parsed
CascLoad ==
    /\ cPc = "start"
    /\ cInputFile = "ok"
    /\ cPc' = "loop"
    /\ UNCHANGED <<prog, cEntries, cIdx, cPos, found, calls, flagged,
                   lastCall, cInputFile, cExit, cOutput>>
    /\ UNCHANGED <<mergeVars, runVars, flagVars, reportVars, matchVars>>

\* the same lines: open() raises and nothing catches it
CascLoadFails ==
    /\ cPc = "start"
    /\ cInputFile \in BadInputs
    /\ cPc' = "failed"
    /\ cExit' = Uncaught
    /\ UNCHANGED <<prog, cEntries, cIdx, cPos, found, calls, flagged,
                   lastCall, cInputFile, cOutput>>
    /\ UNCHANGED <<mergeVars, runVars, flagVars, reportVars, matchVars>>

\* cvf_openreview.py:243, final_filter.py:239  "continue" (slip: left out,
\* so the record goes on to the adapters)
CascMissingTitle_goes_on ==
    /\ cPc = "loop"
    /\ cIdx <= Len(cEntries)
    /\ ~Truthy(cEntries[cIdx].title)
    /\ flagged' = Append(flagged, [entry |-> cIdx, id |-> cEntries[cIdx].id,
                                   why |-> "missing title"])
    /\ cPc' = "cascade"
    /\ cPos' = 1
    /\ found' = FALSE
    /\ UNCHANGED <<prog, cEntries, cIdx, calls, lastCall>>
    /\ UNCHANGED <<cInputFile, cExit, cOutput>>
    /\ UNCHANGED <<mergeVars, runVars, flagVars, reportVars, matchVars>>

\* crossref_arxiv.py:254-258, cvf_openreview.py:238-243,
\* final_filter.py:235-239
CascMissingTitle ==
    /\ cPc = "loop"
    /\ cIdx <= Len(cEntries)
    /\ ~Truthy(cEntries[cIdx].title)
    /\ flagged' = Append(flagged, [entry |-> cIdx, id |-> cEntries[cIdx].id,
                                   why |-> "missing title"])
    /\ cIdx' = cIdx + 1
    /\ UNCHANGED <<prog, cEntries, cPos, found, calls, cPc, lastCall>>
    /\ UNCHANGED <<cInputFile, cExit, cOutput>>
    /\ UNCHANGED <<mergeVars, runVars, flagVars, reportVars, matchVars>>

CascStart ==
    /\ cPc = "loop"
    /\ cIdx <= Len(cEntries)
    /\ Truthy(cEntries[cIdx].title)
    /\ cPc' = "cascade"
    /\ cPos' = 1
    /\ found' = FALSE
    /\ UNCHANGED <<prog, cEntries, cIdx, calls, flagged, lastCall>>
    /\ UNCHANGED <<cInputFile, cExit, cOutput>>
    /\ UNCHANGED <<mergeVars, runVars, flagVars, reportVars, matchVars>>

\* crossref_arxiv.py:17, cvf_openreview.py:16, final_filter.py:20: the
\* SLEEP_SECONDS an adapter gives time.sleep(), in tenths of a second
SLEEP_SECONDS(p) == IF p = "crossref_arxiv" THEN 5 ELSE 10

\* the next adapter is called and returns; "delay" is what its
\* time.sleep(SLEEP_SECONDS) is given
CascCall ==
    /\ cPc = "cascade"
    /\ cPos <= Len(Adapters[prog])
    /\ InvokeNext(found)
    /\ \E resp \in Responses(Adapters[prog][cPos]) :
        LET adapter == Adapters[prog][cPos]
            res == AdapterResult(adapter, resp)
        IN  /\ calls' = Append(calls, [entry |-> cIdx, adapter |-> adapter,
                                       result |-> res,
                                       delay |-> SLEEP_SECONDS(prog)])
            /\ found' = res
            /\ lastCall' = [cands |-> resp.cands,
                            evaluated |-> AdapterRun(adapter, resp).evaluated]
    /\ cPos' = cPos + 1
    /\ UNCHANGED <<prog, cEntries, cIdx, flagged, cPc>>
    /\ UNCHANGED <<cInputFile, cExit, cOutput>>
    /\ UNCHANGED <<mergeVars, runVars, flagVars, reportVars, matchVars>>

\* the next adapter is passed over (the guard of its call is false)
CascPass ==
    /\ cPc = "cascade"
    /\ cPos <= Len(Adapters[prog])
    /\ ~InvokeNext(found)
    /\ cPos' = cPos + 1
    /\ UNCHANGED <<prog, cEntries, cIdx, found, calls, flagged, cPc,
                   lastCall>>
    /\ UNCHANGED <<cInputFile, cExit, cOutput>>
    /\ UNCHANGED <<mergeVars, runVars, flagVars, reportVars, matchVars>>

\* crossref_arxiv.py:268-271, cvf_openreview.py:255-258,
\* final_filter.py:257-260
CascDecide ==
    /\ cPc = "cascade"
    /\ cPos > Len(Adapters[prog])
    /\ flagged' = IF ShouldFlag(found)
                  THEN Append(flagged, [entry |-> cIdx,
                                        id |-> cEntries[cIdx].id,
                                        why |-> "no match"])
                  ELSE flagged
    /\ cIdx' = cIdx + 1
    /\ cPc' = "loop"
    /\ UNCHANGED <<prog, cEntries, cPos, found, calls, lastCall>>
    /\ UNCHANGED <<cInputFile, cExit, cOutput>>
    /\ UNCHANGED <<mergeVars, runVars, flagVars, reportVars, matchVars>>

\* crossref_arxiv.py:273-295, cvf_openreview.py:260-281,
\* final_filter.py:262-288: the list is written out and printed, and the
\* script ends
CascWrite ==
    /\ cPc = "loop"
    /\ cIdx > Len(cEntries)
    /\ cPc' = "done"
    /\ cOutput' = "written"
    /\ cExit' = EndOfScript
    /\ UNCHANGED <<prog, cEntries, cIdx, cPos, found, calls, flagged,
                   lastCall, cInputFile>>
    /\ UNCHANGED <<mergeVars, runVars, flagVars, reportVars, matchVars>>

CascIdle ==
    /\ prog = "none" /\ cEntries = <<>> /\ cIdx = 0 /\ cPos = 0
    /\ found = FALSE /\ calls = <<>> /\ flagged = <<>> /\ cPc = "off"
    /\ lastCall = NoCall
    /\ cInputFile = "none" /\ cExit = Running /\ cOutput = "untouched"

-----------------------------------------------------------------------------
(* bs_check.py / check_semantic.py: flag-only checking                     *)
(*                                                                         *)
(* No field of an entry is changed; the scripts print (check_semantic.py   *)
(* also logs) "[Title Mismatch]" and "[Existence Warning]" annotations.    *)
(* An Optional[str] is [isNone, v].                                        *)

MaxFlagEntries == 2

FlagProgs == {"bs_check", "check_semantic"}

PyNone == [isNone |-> TRUE, v |-> EMPTY]
Some(v) == [isNone |-> FALSE, v |-> v]

\* truthiness of an Optional[str]
OptTruthy(o) == ~o.isNone /\ Truthy(o.v)

ARXIV == <<"a", "r", "x", "i", "v">>
AbsPrefix == ARXIV \o <<".", "o", "r", "g", "/", "a", "b", "s", "/">>

\* \s
Whitespace == {" "}

\* [\w\.\-v]: the word characters the model's strings use, "." and "-"
IdChars ==
    {"a", "b", "c", "e", "f", "g", "i", "j", "n", "o", "p", "r", "s", "v",
     "w", "x", "y", "C", "P", "W", "J", "X", "Y", "0", "1", "2", "_",
     ".", "-"}

\* the greedy group ([\w\.\-v]+) tried at position i: its text, or EMPTY
RECURSIVE IdRun(_, _)
IdRun(s, i) ==
    IF i <= Len(s) /\ s[i] \in IdChars THEN <<s[i]>> \o IdRun(s, i + 1)
    ELSE <<>>

\* \s* from position i: the first position that is not white space
RECURSIVE SkipSpaces(_, _)
SkipSpaces(s, i) ==
    IF i <= Len(s) /\ s[i] \in Whitespace THEN SkipSpaces(s, i + 1) ELSE i

\* does s continue with the literal lit (case-insensitively) at position i
LiteralAt(s, i, lit) ==
    /\ i + Len(lit) - 1 <= Len(s)
    /\ lower(SubSeq(s, i, i + Len(lit) - 1)) = lit

\* r'arxiv\.org/abs/([\w\.\-v]+)' matched at position i: group 1, or EMPTY
MatchAbsAt(s, i) ==
    IF LiteralAt(s, i, AbsPrefix) THEN IdRun(s, i + Len(AbsPrefix)) ELSE <<>>

\* r'arxiv\s*:\s*([\w\.\-v]+)' matched at position i: group 1, or EMPTY
MatchColonAt(s, i) ==
    IF LiteralAt(s, i, ARXIV)
    THEN LET j == SkipSpaces(s, i + Len(ARXIV))
         IN  IF j <= Len(s) /\ s[j] = ":"
             THEN IdRun(s, SkipSpaces(s, j + 1))
             ELSE <<>>
    ELSE <<>>

\* re.search: the match at the leftmost position that has one
FirstMatch(s, pattern) ==
    LET MatchAt(i) == IF pattern = "abs" THEN MatchAbsAt(s, i)
                      ELSE MatchColonAt(s, i)
        hits == {i \in 1..Len(s) : MatchAt(i) # <<>>}
    IN  IF hits = {} THEN PyNone
        ELSE Some(MatchAt(CHOOSE i \in hits : \A k \in hits : i <= k))

\* (slip: the "arxiv: <id>" pattern tried before the "arxiv.org/abs/" one)
parse_arxiv_id_from_text_colonfirst(value) ==
    IF ~FirstMatch(value, "colon").isNone
    THEN FirstMatch(value, "colon")
    ELSE FirstMatch(value, "abs")

\* parse_arxiv_id_from_text(value)
parse_arxiv_id_from_text(value) ==
    IF ~FirstMatch(value, "abs").isNone
    THEN FirstMatch(value, "abs")
    ELSE FirstMatch(value, "colon")

\* the first truthy parse_arxiv_id_from_text over the fields scanned
RECURSIVE ScanFields(_)
ScanFields(values) ==
    IF values = <<>> THEN PyNone
    ELSE LET possible_id == parse_arxiv_id_from_text(Head(values))
         IN  IF OptTruthy(possible_id) THEN possible_id
             ELSE ScanFields(Tail(values))

\* how many of the fields parse_arxiv_id_from_text was called on
RECURSIVE ScanCount(_)
ScanCount(values) ==
    IF values = <<>> THEN 0
    ELSE IF OptTruthy(parse_arxiv_id_from_text(Head(values))) THEN 1
    ELSE 1 + ScanCount(Tail(values))

\* bs_check.py:97  "if archiveprefix.lower() == 'arxiv' and eprint_val"
\* (slip: the prefix compared without lower())
HasEprint_cased(archiveprefix, eprint_val) ==
    archiveprefix = ARXIV /\ Truthy(eprint_val)
HasEprint(archiveprefix, eprint_val) ==
    lower(archiveprefix) = ARXIV /\ Truthy(eprint_val)

\* bs_check.py:96-110, check_semantic.py:159-171: the arXiv id of an entry
\* and the number of free-text fields scanned for it
ExtractArxivId(entry) ==
    LET title == Get(entry, "title", EMPTY)
        archiveprefix == Get(entry, "archiveprefix", EMPTY)
        eprint_val == Get(entry, "eprint", EMPTY)
        booktitle == Get(entry, "booktitle", EMPTY)
        url == Get(entry, "url", EMPTY)
    IN  IF HasEprint(archiveprefix, eprint_val)
        THEN [id |-> Some(eprint_val), scanned |-> 0]
        ELSE [id |-> ScanFields(<<booktitle, url, title>>),
              scanned |-> ScanCount(<<booktitle, url, title>>)]

ArxivIdOf(entry) == ExtractArxivId(entry).id

\* What requests.get(arxiv abs url) gives: a RequestException (transport
\* failure, timeout, raise_for_status on a non-success status), or a page
\* whose citation_title meta tag is absent (PyNone) or has a content.
ArxivPages ==
    {[raises |-> TRUE, content |-> PyNone],
     [raises |-> FALSE, content |-> PyNone]}
    \cup {[raises |-> FALSE, content |-> Some(c)] :
            c \in {<<"x">>, <<"Y">>, <<" ">>}}

\* fetch_arxiv_title(arxiv_id), given what the request returns
fetch_arxiv_title(page) ==
    IF page.raises THEN PyNone
    ELSE IF OptTruthy(page.content) THEN Some(strip(page.content.v))
    ELSE PyNone

\* bs_check.py:125  official_title.lower().strip() != title.lower().strip()
\* (slip: the comparison without the case-folding)
TitlesDiffer_cased(official_title, title) == strip(official_title) # strip(title)
TitlesDiffer(official_title, title) ==
    strip(lower(official_title)) # strip(lower(title))

\* bs_check.py:119-125 / check_semantic.py:179-181: is the entry annotated
\* "[Title Mismatch]", given what fetch_arxiv_title returned
IsTitleMismatch(p, official_title, title) ==
    /\ OptTruthy(official_title)
    /\ p = "check_semantic" => Truthy(title)
    /\ TitlesDiffer(official_title.v, title)

\* check_semantic.py:195  threshold=0.75, in hundredths
EXISTENCE_THRESHOLD == 75

\* A result of the Semantic Scholar search as check_paper_existence sees
\* it: its similarity to the title in hundredths, or a result whose "title"
\* is null (r_title.lower() raises AttributeError).
SemCandidates ==
    {[malformed |-> FALSE, sim |-> 74], [malformed |-> FALSE, sim |-> 75],
     [malformed |-> TRUE, sim |-> 0]}

\* What the search request gives: a RequestException, a body that is not
\* JSON (ValueError), a JSON value that is not an object (data.get raises
\* AttributeError), or an object with its "data" list.
SemResponses ==
    {[kind |-> k, data |-> <<>>] :
        k \in {"request_exception", "bad_json", "not_an_object"}}
    \cup {[kind |-> "ok", data |-> d] : d \in SeqsUpTo(SemCandidates, MaxCands)}

\* semantic_scholar_search(title): [raised, results]
semantic_scholar_search(title, resp) ==
    IF ~Truthy(title) THEN [raised |-> FALSE, called |-> FALSE, results |-> <<>>]
    ELSE IF resp.kind \in {"request_exception", "bad_json"}
    THEN [raised |-> FALSE, called |-> TRUE, results |-> <<>>]
    ELSE IF resp.kind = "not_an_object"
    THEN [raised |-> TRUE, called |-> TRUE, results |-> <<>>]
    ELSE [raised |-> FALSE, called |-> TRUE, results |-> resp.data]

\* the loop of check_paper_existence over the results from position i
RECURSIVE ExistenceLoop(_, _, _)
ExistenceLoop(results, threshold, i) ==
    IF i > Len(results) THEN [raised |-> FALSE, found |-> FALSE]
    ELSE IF results[i].malformed THEN [raised |-> TRUE, found |-> FALSE]
    ELSE IF results[i].sim >= threshold THEN [raised |-> FALSE, found |-> TRUE]
    ELSE ExistenceLoop(results, threshold, i + 1)

\* check_paper_existence(title, threshold): [raised, found, called, slept]
check_paper_existence(title, threshold, resp) ==
    LET s == semantic_scholar_search(title, resp)
    IN  IF s.raised
        THEN [raised |-> TRUE, found |-> FALSE, called |-> s.called,
              slept |-> FALSE]
        ELSE LET l == ExistenceLoop(s.results, threshold, 1)
             IN  [raised |-> l.raised, found |-> l.found,
                  called |-> s.called, slept |-> TRUE]

\* The entries bibtexparser loads (field keys in lower case): with and
\* without a title, the arXiv id in the eprint field, in the url, in the
\* booktitle, or nowhere; both patterns in the booktitle and a third id in
\* the url.
FlagEntryPool ==
    { [ID |-> <<"a">>, title |-> <<"x">>,
       archiveprefix |-> <<"a", "r", "X", "i", "v">>, eprint |-> <<"1">>,
       url |-> AbsPrefix \o <<"2">>],
      [ID |-> <<"b">>, title |-> <<"X", " ">>,
       url |-> AbsPrefix \o <<"1">>],
      [ID |-> <<"c">>, archiveprefix |-> ARXIV, eprint |-> <<"1">>],
      [ID |-> <<"d">>, title |-> <<"y">>],
      [ID |-> <<"e">>, title |-> <<" ">>,
       booktitle |-> <<"a", "r", "X", "i", "v", ":", " ", "1">>],
      [ID |-> <<"f">>,
       booktitle |-> ARXIV \o <<":", "2", " ">> \o AbsPrefix \o <<"1">>,
       url |-> AbsPrefix \o <<"0">>] }

FlagInit ==
    /\ fProg \in FlagProgs
    /\ fEntries \in SeqsUpTo(FlagEntryPool, MaxFlagEntries) \ {<<>>}
    /\ fIdx = 1
    /\ fPc = "loop"
    /\ mismatch_found = FALSE
    /\ annotations = <<>>
    /\ fOfficial = <<>>
    /\ fSinceDelay = 0
    /\ fRaised = FALSE
    /\ fExtracted = <<>>
    /\ fFetched = {}

\* one more outbound call since the last time.sleep()
OneMoreCall(n) == IF n < 2 THEN n + 1 ELSE 2

\* check_semantic.py:177 time.sleep(5) after fetch_arxiv_title; bs_check.py
\* has no delay at all
SinceDelayAfterFetch(p, n) == IF p = "check_semantic" THEN 0 ELSE OneMoreCall(n)

\* bs_check.py:112-114 (continue), check_semantic.py:190-191
FlagNoArxivId ==
    /\ fPc = "loop"
    /\ fIdx <= Len(fEntries)
    /\ ~OptTruthy(ArxivIdOf(fEntries[fIdx]))
    /\ fOfficial' = Append(fOfficial, PyNone)
    /\ fExtracted' = Append(fExtracted, ExtractArxivId(fEntries[fIdx]))
    /\ IF fProg = "bs_check"
       THEN fIdx' = fIdx + 1 /\ UNCHANGED fPc
       ELSE fPc' = "exist" /\ UNCHANGED fIdx
    /\ UNCHANGED <<fProg, fEntries, mismatch_found, annotations, fSinceDelay,
                   fRaised, fFetched>>
    /\ UNCHANGED <<mergeVars, runVars, cascVars, reportVars, matchVars>>

\* bs_check.py:116-129, check_semantic.py:174-189: the official title is
\* fetched and compared
FlagFetch ==
    /\ fPc = "loop"
    /\ fIdx <= Len(fEntries)
    /\ OptTruthy(ArxivIdOf(fEntries[fIdx]))
    /\ \E page \in ArxivPages :
        LET official_title == fetch_arxiv_title(page)
            title == Get(fEntries[fIdx], "title", EMPTY)
            mismatch == IsTitleMismatch(fProg, official_title, title)
        IN  /\ fOfficial' = Append(fOfficial, official_title)
            /\ mismatch_found' = (mismatch_found \/ mismatch)
            /\ annotations' =
                 IF mismatch
                 THEN Append(annotations,
                             [entry |-> fIdx, kind |-> "Title Mismatch"])
                 ELSE annotations
    /\ fSinceDelay' = SinceDelayAfterFetch(fProg, fSinceDelay)
    /\ fExtracted' = Append(fExtracted, ExtractArxivId(fEntries[fIdx]))
    /\ fFetched' = fFetched \cup {fIdx}
    /\ IF fProg = "bs_check"
       THEN fIdx' = fIdx + 1 /\ UNCHANGED fPc
       ELSE fPc' = "exist" /\ UNCHANGED fIdx
    /\ UNCHANGED <<fProg, fEntries, fRaised>>
    /\ UNCHANGED <<mergeVars, runVars, cascVars, reportVars, matchVars>>

\* check_semantic.py:194: no existence check for an entry without a title
FlagExistSkip ==
    /\ fPc = "exist"
    /\ ~Truthy(strip(Get(fEntries[fIdx], "title", EMPTY)))
    /\ fIdx' = fIdx + 1
    /\ fPc' = "loop"
    /\ UNCHANGED <<fProg, fEntries, mismatch_found, annotations, fOfficial,
                   fSinceDelay, fRaised>>
    /\ UNCHANGED <<fExtracted, fFetched>>
    /\ UNCHANGED <<mergeVars, runVars, cascVars, reportVars, matchVars>>

\* check_semantic.py:194-203: check_paper_existence and its warning; an
\* exception it raises is caught nowhere and ends the script
FlagExist ==
    /\ fPc = "exist"
    /\ Truthy(strip(Get(fEntries[fIdx], "title", EMPTY)))
    /\ \E resp \in SemResponses :
        LET r == check_paper_existence(Get(fEntries[fIdx], "title", EMPTY),
                                       EXISTENCE_THRESHOLD, resp)
            n == IF r.called THEN OneMoreCall(fSinceDelay) ELSE fSinceDelay
        IN  /\ fSinceDelay' = IF r.slept THEN 0 ELSE n
            /\ fRaised' = r.raised
            /\ IF r.raised
               THEN /\ fPc' = "crashed"
                    /\ UNCHANGED <<fIdx, annotations>>
               ELSE /\ fPc' = "loop"
                    /\ fIdx' = fIdx + 1
                    /\ annotations' =
                         IF ~r.found
                         THEN Append(annotations,
                                     [entry |-> fIdx,
                                      kind |-> "Existence Warning"])
                         ELSE annotations
    /\ UNCHANGED <<fProg, fEntries, mismatch_found, fOfficial>>
    /\ UNCHANGED <<fExtracted, fFetched>>
    /\ UNCHANGED <<mergeVars, runVars, cascVars, reportVars, matchVars>>

\* bs_check.py:131-133, check_semantic.py:205-218: the closing messages and
\* the log of the annotations
FlagDone ==
    /\ fPc = "loop"
    /\ fIdx > Len(fEntries)
    /\ fPc' = "done"
    /\ UNCHANGED <<fProg, fEntries, fIdx, mismatch_found, annotations,
                   fOfficial, fSinceDelay, fRaised>>
    /\ UNCHANGED <<fExtracted, fFetched>>
    /\ UNCHANGED <<mergeVars, runVars, cascVars, reportVars, matchVars>>

FlagIdle ==
    /\ fProg = "none" /\ fEntries = <<>> /\ fIdx = 0 /\ fPc = "off"
    /\ mismatch_found = FALSE /\ annotations = <<>> /\ fOfficial = <<>>
    /\ fSinceDelay = 0 /\ fRaised = FALSE /\ fExtracted = <<>>
    /\ fFetched = {}

-----------------------------------------------------------------------------
(* The flagged report: crossref_arxiv.py writes one reason per flagged     *)
(* entry, cvf_openreview.py and final_filter.py read the lines back        *)

MaxReportEntries == 2

NL == "\n"

\* ['\"]
QuoteChars == {"'", "\""}

RECURSIVE Concat(_)
Concat(ss) == IF ss = <<>> THEN <<>> ELSE Head(ss) \o Concat(Tail(ss))

\* crossref_arxiv.py:255  f"[{entry_id}] Missing title in .bib"
MissingTitleReason(entry_id) ==
    <<"[">> \o entry_id \o
    <<"]", " ", "M", "i", "s", "s", "i", "n", "g", " ", "t", "i", "t",
          "l", "e", " ", "i", "n", " ", ".", "b", "i", "b">>

\* crossref_arxiv.py:269
\* f"[{entry_id}] No match in Crossref or ArXiv for '{bib_title}'"
NoMatchReason(entry_id, bib_title) ==
    <<"[">> \o entry_id \o
    <<"]", " ", "N", "o", " ", "m", "a", "t", "c", "h", " ", "i", "n",
          " ", "C", "r", "o", "s", "s", "r", "e", "f", " ", "o", "r",
          " ", "A", "r", "X", "i", "v", " ", "f", "o", "r", " ", "'">>
    \o bib_title \o <<"'">>

\* crossref_arxiv.py:254-256, 268-270: the reason a flagged entry gets
Reason(entry) ==
    IF ~Truthy(entry.title) THEN MissingTitleReason(entry.id)
    ELSE NoMatchReason(entry.id, entry.title)

\* crossref_arxiv.py:275-277: fout.write(f"{reason}\n") for every flagged
\* entry, in order
RECURSIVE ReportText(_)
ReportText(flagged_entries) ==
    IF flagged_entries = <<>> THEN <<>>
    ELSE Reason(Head(flagged_entries)) \o <<NL>>
             \o ReportText(Tail(flagged_entries))

\* "for line in fin": the text cut after every newline; a last line without
\* a newline is a line too
RECURSIVE FileLines(_)
FileLines(text) ==
    IF text = <<>> THEN <<>>
    ELSE LET ends == {k \in 1..Len(text) : text[k] = NL}
         IN  IF ends = {} THEN <<text>>
             ELSE LET k == CHOOSE e \in ends : \A o \in ends : e <= o
                  IN  <<SubSeq(text, 1, k - 1)>>
                          \o FileLines(SubSeq(text, k + 1, Len(text)))

Least(S) == CHOOSE e \in S : \A o \in S : e <= o
Greatest(S) == CHOOSE e \in S : \A o \in S : e >= o

\* positions of the "]" after position i
ClosesAfter(line, i) == {k \in (i + 1)..Len(line) : line[k] = "]"}

\* \[(?P<id>[^\]]+)\] matched at position i: the position of its "]", or 0
BracketAt(line, i) ==
    IF i <= Len(line) /\ line[i] = "[" /\ ClosesAfter(line, i) # {}
         /\ Least(ClosesAfter(line, i)) > i + 1
    THEN Least(ClosesAfter(line, i))
    ELSE 0

\* ['\"](?P<title>[^'\"]+)['\"] matched at position p: the position of its
\* closing quote, or 0
QuotedAt(line, p) ==
    LET later == {q \in (p + 1)..Len(line) : line[q] \in QuoteChars}
    IN  IF p <= Len(line) /\ line[p] \in QuoteChars /\ later # {}
             /\ Least(later) > p + 1
        THEN Least(later)
        ELSE 0

\* pattern.match(line), pattern =
\* r"^\[(?P<id>[^\]]+)\].+['\"](?P<title>[^'\"]+)['\"].*": the greedy .+
\* takes the opening quote as far right as a match allows and needs one
\* character at least.  [matched, id, title]
PatternMatch(line) ==
    LET k == BracketAt(line, 1)
        opens == {p \in (k + 2)..Len(line) : QuotedAt(line, p) # 0}
    IN  IF k # 0 /\ opens # {}
        THEN LET p == Greatest(opens)
             IN  [matched |-> TRUE,
                  id |-> SubSeq(line, 2, k - 1),
                  title |-> SubSeq(line, p + 1, QuotedAt(line, p) - 1)]
        ELSE [matched |-> FALSE, id |-> EMPTY, title |-> EMPTY]

UNKNOWN == <<"U", "N", "K", "N", "O", "W", "N">>

\* cvf_openreview.py:70-75, final_filter.py:208-212: bracket_pattern.search
\* (slip: the fallback gives up the id)
FallbackId_unknown(line) == UNKNOWN
FallbackId(line) ==
    LET starts == {i \in 1..Len(line) : BracketAt(line, i) # 0}
    IN  IF starts # {}
        THEN strip(SubSeq(line, Least(starts) + 1,
                          BracketAt(line, Least(starts)) - 1))
        ELSE UNKNOWN

\* cvf_openreview.py:59-76, final_filter.py:201-213: the record of one
\* stripped, non-blank line
FlaggedRecord(line) ==
    LET match == PatternMatch(line)
    IN  IF match.matched
        THEN [id |-> strip(match.id), title |-> Some(strip(match.title))]
        ELSE [id |-> FallbackId(line), title |-> PyNone]

RECURSIVE LoadLines(_)
LoadLines(lines) ==
    IF lines = <<>> THEN <<>>
    ELSE LET line == strip(Head(lines))
         IN  IF ~Truthy(line) THEN LoadLines(Tail(lines))
             ELSE <<FlaggedRecord(line)>> \o LoadLines(Tail(lines))

\* load_flagged_references(flagged_file_path), given the text of the file
load_flagged_references(text) == LoadLines(FileLines(text))

\* The entries check_bibliography flags: an id, and a stripped title that
\* is empty, plain, has an apostrophe, brackets, or a line break inside (a
\* BibTeX field that runs over two lines).
ReportEntries ==
    { [id |-> i, title |-> t] :
        i \in {<<"k">>, <<"o", "'", "n">>},
        t \in {EMPTY, <<"T">>, <<"a", "'", "b">>, <<"a", NL, "b">>} }

\* Lines of a flagged file that was written by hand: without brackets, with
\* and without a quoted title, with blanks to trim and with double quotes.
FreeLines ==
    { <<" ">>,
      <<"x">>,
      <<"x", " ", "'", "T", "'">>,
      <<"[", "k", "]", " ", "x">>,
      <<"[", " ", "k", " ", "]", " ", "x", " ", "\"", " ", "T", " ", "\"">>,
      <<"x", " ", "[", "k", "]", " ", "\"", "T", "'", " ", "y">> }

\* such a file, its last line with or without the newline
FreeFiles ==
    { Concat([i \in 1..Len(ls) |-> ls[i] \o <<NL>>]) :
        ls \in SeqsUpTo(FreeLines, MaxReportEntries) \ {<<>>} }
    \cup FreeLines

ReportInit ==
    \/ /\ rPc = "flagged"
       /\ rEntries \in SeqsUpTo(ReportEntries, MaxReportEntries)
       /\ rFile = <<>>
       /\ rRecords = <<>>
    \/ /\ rPc = "written"
       /\ rEntries = <<>>
       /\ rFile \in FreeFiles
       /\ rRecords = <<>>

\* crossref_arxiv.py:273-277
WriteReport ==
    /\ rPc = "flagged"
    /\ rFile' = ReportText([i \in 1..Len(rEntries) |-> rEntries[i]])
    /\ rPc' = "written"
    /\ UNCHANGED <<rEntries, rRecords>>
    /\ UNCHANGED <<mergeVars, runVars, cascVars, flagVars, matchVars>>

\* cvf_openreview.py:234, final_filter.py:231
LoadReport ==
    /\ rPc = "written"
    /\ rRecords' = load_flagged_references(rFile)
    /\ rPc' = "loaded"
    /\ UNCHANGED <<rEntries, rFile>>
    /\ UNCHANGED <<mergeVars, runVars, cascVars, flagVars, matchVars>>

ReportIdle ==
    /\ rPc = "off" /\ rEntries = <<>> /\ rFile = <<>> /\ rRecords = <<>>

-----------------------------------------------------------------------------
(* The matching functions                                                  *)

MaxRatioLen == 3
MaxTitleLen == 4
MaxBibAuthors == 5
MaxFoundAuthors == 3

AUTHOR_MATCH_THRESHOLD == 75
\* MIN_AUTHOR_OVERLAP_FRAC = 0.6, in tenths
MIN_AUTHOR_OVERLAP_FRAC == 6

\* the length of the block that a[i..ahi] and b[j..bhi] begin with in common
RECURSIVE RunLength(_, _, _, _, _, _)
RunLength(a, b, i, j, ahi, bhi) ==
    IF i > ahi \/ j > bhi THEN 0
    ELSE IF a[i] # b[j] THEN 0
    ELSE 1 + RunLength(a, b, i + 1, j + 1, ahi, bhi)

\* difflib's find_longest_match over a[..ahi] and b[blo..bhi] (both ends
\* included), scanning from a[i], b[j] on: the longest block, of those the
\* one that starts earliest in a, of those the one that starts earliest in b
\* (isjunk is None and the strings are far below the autojunk length).
RECURSIVE find_longest_match(_, _, _, _, _, _, _, _)
find_longest_match(a, b, i, j, ahi, blo, bhi, best) ==
    IF i > ahi THEN best
    ELSE IF j > bhi
    THEN find_longest_match(a, b, i + 1, blo, ahi, blo, bhi, best)
    ELSE LET k == RunLength(a, b, i, j, ahi, bhi)
         IN  find_longest_match(a, b, i, j + 1, ahi, blo, bhi,
                                IF k > best.size
                                THEN [i |-> i, j |-> j, size |-> k]
                                ELSE best)

\* difflib's get_matching_blocks: the longest block of a[alo..ahi] and
\* b[blo..bhi], then the same to the left and to the right of it; the
\* result is the number of characters matched.
RECURSIVE MatchingSize(_, _, _, _, _, _)
MatchingSize(a, b, alo, ahi, blo, bhi) ==
    LET x == find_longest_match(a, b, alo, blo, ahi, blo, bhi,
                                [i |-> alo, j |-> blo, size |-> 0])
    IN  IF x.size = 0 THEN 0
        ELSE x.size + MatchingSize(a, b, alo, x.i - 1, blo, x.j - 1)
                    + MatchingSize(a, b, x.i + x.size, ahi,
                                   x.j + x.size, bhi)

\* difflib.SequenceMatcher(None, a, b).ratio(): 2.0 * matches / length, and
\* 1.0 for two empty strings, as the fraction num / den
SequenceMatcherRatio(a, b) ==
    IF Len(a) + Len(b) = 0 THEN [num |-> 1, den |-> 1]
    ELSE [num |-> 2 * MatchingSize(a, b, 1, Len(a), 1, Len(b)),
          den |-> Len(a) + Len(b)]

\* fuzzy_ratio(a, b): the ratio times 100
fuzzy_ratio(a, b) ==
    LET ratio == SequenceMatcherRatio(a, b)
    IN  [num |-> 100 * ratio.num, den |-> ratio.den]

\* check_semantic.py: similarity(a, b)
similarity(a, b) == SequenceMatcherRatio(a, b)

\* cvf_openreview.py, final_filter.py: approximate_ratio(a, b)
approximate_ratio(a, b) == fuzzy_ratio(lower(a), lower(b))

\* "ratio >= threshold"
\* (slip: ">" for ">=")
RatioAtLeast_strict(r, threshold) == r.num > threshold * r.den
RatioAtLeast(r, threshold) == r.num >= threshold * r.den

\* "score > best_score"
RatioGreater(r, s) == r.num * s.den > s.num * r.den

\* approximate_title_match(bib_title, candidate_title)
approximate_title_match(bib_title, candidate_title) ==
    RatioAtLeast(fuzzy_ratio(lower(bib_title), lower(candidate_title)),
                 TITLE_MATCH_THRESHOLD)

\* The title test of each script, with the arguments in the order the
\* script passes them: crossref_arxiv.py:160, 217; cvf_openreview.py:108-112
\* (final_filter.py the same); check_semantic.py:130-133 with the threshold
\* 0.75 of its one call (check_semantic.py:195).
TitleMatches(script, bib_title, candidate_title) ==
    CASE script = "crossref_arxiv" ->
             approximate_title_match(bib_title, candidate_title)
      [] script = "cvf_openreview" ->
             RatioAtLeast(approximate_ratio(bib_title, candidate_title),
                          TITLE_MATCH_THRESHOLD)
      [] script = "check_semantic" ->
             LET sim == similarity(lower(candidate_title), lower(bib_title))
             IN  RatioAtLeast([num |-> 100 * sim.num, den |-> sim.den],
                              EXISTENCE_THRESHOLD)

Spaces(s) == {i \in 1..Len(s) : s[i] = " "}
Commas(s) == {i \in 1..Len(s) : s[i] = ","}

\* crossref_arxiv.py:58  "last = parts[-1]" (slip: parts[0], the first token)
parse_last_name_first(author_str) ==
    LET a_str == lower(strip(author_str))
    IN  IF ~Truthy(a_str) THEN EMPTY
        ELSE IF Commas(a_str) # {}
        THEN strip(SubSeq(a_str, 1, Least(Commas(a_str)) - 1))
        ELSE IF Spaces(a_str) = {} THEN a_str
        ELSE SubSeq(a_str, 1, Least(Spaces(a_str)) - 1)

\* parse_last_name(author_str)
parse_last_name(author_str) ==
    LET a_str == lower(strip(author_str))
    IN  IF ~Truthy(a_str) THEN EMPTY
        ELSE IF Commas(a_str) # {}
        THEN strip(SubSeq(a_str, 1, Least(Commas(a_str)) - 1))
        ELSE IF Spaces(a_str) = {} THEN a_str
        ELSE SubSeq(a_str, Greatest(Spaces(a_str)) + 1, Len(a_str))

\* [parse_last_name(x) for x in authors if x.strip()]
RECURSIVE LastNames(_)
LastNames(authors) ==
    IF authors = <<>> THEN <<>>
    ELSE IF Truthy(strip(Head(authors)))
    THEN <<parse_last_name(Head(authors))>> \o LastNames(Tail(authors))
    ELSE LastNames(Tail(authors))

ZeroScore == [num |-> 0, den |-> 1]

\* crossref_arxiv.py:93  "if score > best_score" (slip: the comparison left
\* out, so that the last candidate not yet used is taken)
BestFound_last(bln, found_last, used_found_idx, i, best_score, best_idx) ==
    LET unused == (1..Len(found_last)) \ used_found_idx
    IN  IF unused = {}
        THEN [best_score |-> best_score, best_idx |-> best_idx]
        ELSE [best_score |-> fuzzy_ratio(bln, found_last[Greatest(unused)]),
              best_idx |-> Greatest(unused)]

\* crossref_arxiv.py:87-95: the inner loop from found_last[i] on;
\* [best_score, best_idx] (best_idx is -1 while nothing scored above 0)
RECURSIVE BestFound(_, _, _, _, _, _)
BestFound(bln, found_last, used_found_idx, i, best_score, best_idx) ==
    IF i > Len(found_last)
    THEN [best_score |-> best_score, best_idx |-> best_idx]
    ELSE IF i \in used_found_idx
    THEN BestFound(bln, found_last, used_found_idx, i + 1,
                   best_score, best_idx)
    ELSE LET score == fuzzy_ratio(bln, found_last[i])
         IN  IF RatioGreater(score, best_score)
             THEN BestFound(bln, found_last, used_found_idx, i + 1, score, i)
             ELSE BestFound(bln, found_last, used_found_idx, i + 1,
                            best_score, best_idx)

\* crossref_arxiv.py:97-99  "used_found_idx.add(best_idx)" (slip: the
\* candidate is not marked as used)
RECURSIVE GreedyMatch_reuse(_, _, _, _, _, _)
GreedyMatch_reuse(bib_last, found_last, n, matched_count, used_found_idx, pairs) ==
    IF n > Len(bib_last)
    THEN [matched_count |-> matched_count,
          used_found_idx |-> used_found_idx, pairs |-> pairs]
    ELSE LET best == BestFound(bib_last[n], found_last, used_found_idx, 1,
                               ZeroScore, -1)
         IN  IF RatioAtLeast(best.best_score, AUTHOR_MATCH_THRESHOLD)
             THEN GreedyMatch_reuse(bib_last, found_last, n + 1,
                                    matched_count + 1, used_found_idx,
                                    pairs \cup {<<n, best.best_idx>>})
             ELSE GreedyMatch_reuse(bib_last, found_last, n + 1,
                                    matched_count, used_found_idx, pairs)

\* crossref_arxiv.py:82-99: the outer loop from bib_last[n] on;
\* [matched_count, used_found_idx, pairs], pairs being the (bib, found)
\* positions matched
RECURSIVE GreedyMatch(_, _, _, _, _, _)
GreedyMatch(bib_last, found_last, n, matched_count, used_found_idx, pairs) ==
    IF n > Len(bib_last)
    THEN [matched_count |-> matched_count,
          used_found_idx |-> used_found_idx, pairs |-> pairs]
    ELSE LET best == BestFound(bib_last[n], found_last, used_found_idx, 1,
                               ZeroScore, -1)
         IN  IF RatioAtLeast(best.best_score, AUTHOR_MATCH_THRESHOLD)
             THEN GreedyMatch(bib_last, found_last, n + 1, matched_count + 1,
                              used_found_idx \cup {best.best_idx},
                              pairs \cup {<<n, best.best_idx>>})
             ELSE GreedyMatch(bib_last, found_last, n + 1, matched_count,
                              used_found_idx, pairs)

\* crossref_arxiv.py:101-106  "overlap_fraction >= MIN_AUTHOR_OVERLAP_FRAC"
\* (slip: ">" for ">=")
OverlapPasses_strict(matched_count, total) ==
    10 * matched_count > MIN_AUTHOR_OVERLAP_FRAC * total
OverlapPasses(matched_count, total) ==
    10 * matched_count >= MIN_AUTHOR_OVERLAP_FRAC * total

\* authors_overlap_fuzzy(bib_authors, found_authors), with what its loop
\* counted
authors_overlap_fuzzy(bib_authors, found_authors) ==
    LET bib_last == LastNames(bib_authors)
        found_last == LastNames(found_authors)
        g == GreedyMatch(bib_last, found_last, 1, 0, {}, {})
    IN  IF bib_last = <<>>
        THEN [result |-> TRUE, matched_count |-> 0, pairs |-> {}]
        ELSE [result |-> OverlapPasses(g.matched_count, Len(bib_last)),
              matched_count |-> g.matched_count, pairs |-> g.pairs]

\* arguments of fuzzy_ratio / similarity / approximate_ratio
RatioStrings == SeqsUpTo({"a", "b", "c"}, MaxRatioLen)

\* titles of the bibliography, in both cases, and titles of candidates
TitleStrings == SeqsUpTo({"a", "A", "b"}, MaxTitleLen)
CandidateTitleStrings == SeqsUpTo({"A", "b"}, MaxTitleLen)

TitleScripts == {"crossref_arxiv", "cvf_openreview", "check_semantic"}

\* authors as the .bib gives them (crossref_arxiv.py:247: never blank), and
\* as a candidate gives them (an ArXiv <name> may be blank)
\* The last names are "ab" and "abc" for the bibliography, "ab" and "abcd"
\* for a candidate: ab/ab scores 100, abc/abcd 85.7, abc/ab 80 and
\* ab/abcd 66.7, below the threshold.
BibAuthorStrings == { <<"a", "b", ",", " ", "c">>, <<"a", "b", "c">> }
FoundAuthorStrings ==
    { <<"c", " ", "A", "b">>, <<"a", "b", "c", "d">>, EMPTY }

\* author strings in both styles, with blanks around the name and around
\* the comma, with several commas, of one token, and blank
AuthorStrings ==
    { <<"A", "b", ",", " ", "c">>, <<"c", " ", "A", "b">>,
      <<"A", "b", " ", ",", "c">>, <<" ", "a", "b", ",", "c">>,
      <<"a", ",", "b", ",", "c">>, <<"c", " ", "d", " ", "A", "b">>,
      <<" ", "c", " ", " ", "a", "b", " ">>, <<"A", "b">>, <<",", "c">>,
      <<" ">>, EMPTY }

MatchInit ==
    /\ xPc = "call"
    /\ xRet = [fn |-> "none"]
    /\ \/ xCall \in [fn : {"fuzzy_ratio"}, a : RatioStrings, b : RatioStrings]
       \/ xCall \in [fn : {"parse_last_name"}, author_str : AuthorStrings]
       \/ xCall \in [fn : {"title_match"}, script : TitleScripts,
                     bib_title : TitleStrings,
                     candidate_title : CandidateTitleStrings]
       \/ xCall \in [fn : {"authors_overlap_fuzzy"},
                     bib_authors : SeqsUpTo(BibAuthorStrings, MaxBibAuthors),
                     found_authors :
                         SeqsUpTo(FoundAuthorStrings, MaxFoundAuthors - 1)]

\* fuzzy_ratio(a, b) is called
CallFuzzyRatio ==
    /\ xPc = "call"
    /\ xCall.fn = "fuzzy_ratio"
    /\ xRet' = [fn |-> "fuzzy_ratio", ratio |-> fuzzy_ratio(xCall.a, xCall.b)]
    /\ xPc' = "returned"
    /\ UNCHANGED xCall
    /\ UNCHANGED <<mergeVars, runVars, cascVars, flagVars, reportVars>>

\* parse_last_name(author_str) is called
CallParseLastName ==
    /\ xPc = "call"
    /\ xCall.fn = "parse_last_name"
    /\ xRet' = [fn |-> "parse_last_name",
                last |-> parse_last_name(xCall.author_str)]
    /\ xPc' = "returned"
    /\ UNCHANGED xCall
    /\ UNCHANGED <<mergeVars, runVars, cascVars, flagVars, reportVars>>

\* the title test of a script is applied to a candidate
CallTitleMatch ==
    /\ xPc = "call"
    /\ xCall.fn = "title_match"
    /\ xRet' = [fn |-> "title_match",
                result |-> TitleMatches(xCall.script, xCall.bib_title,
                                        xCall.candidate_title)]
    /\ xPc' = "returned"
    /\ UNCHANGED xCall
    /\ UNCHANGED <<mergeVars, runVars, cascVars, flagVars, reportVars>>

\* authors_overlap_fuzzy(bib_authors, found_authors) is called
CallAuthorsOverlap ==
    /\ xPc = "call"
    /\ xCall.fn = "authors_overlap_fuzzy"
    /\ LET r == authors_overlap_fuzzy(xCall.bib_authors, xCall.found_authors)
       IN  xRet' = [fn |-> "authors_overlap_fuzzy", result |-> r.result,
                    matched_count |-> r.matched_count, pairs |-> r.pairs,
                    before |-> r.matched_count, extended |-> FALSE]
    /\ xPc' = "returned"
    /\ UNCHANGED xCall
    /\ UNCHANGED <<mergeVars, runVars, cascVars, flagVars, reportVars>>

\* the same bibliography authors against a candidate that lists one author
\* more, at any place of its list; "before" keeps the previous count (every
\* list below the bound is a first call, so one such step after it reaches
\* every pair of a list and a list one longer)
CallWithOneMore ==
    /\ xPc = "returned"
    /\ xCall.fn = "authors_overlap_fuzzy"
    /\ ~xRet.extended
    /\ Len(xCall.found_authors) < MaxFoundAuthors
    /\ \E extra \in FoundAuthorStrings, at \in 0..Len(xCall.found_authors) :
        LET longer == SubSeq(xCall.found_authors, 1, at) \o <<extra>> \o
                      SubSeq(xCall.found_authors, at + 1,
                             Len(xCall.found_authors))
            r == authors_overlap_fuzzy(xCall.bib_authors, longer)
        IN  /\ xCall' = [xCall EXCEPT !.found_authors = longer]
            /\ xRet' = [fn |-> "authors_overlap_fuzzy", result |-> r.result,
                        matched_count |-> r.matched_count, pairs |-> r.pairs,
                        before |-> xRet.matched_count, extended |-> TRUE]
    /\ UNCHANGED xPc
    /\ UNCHANGED <<mergeVars, runVars, cascVars, flagVars, reportVars>>

MatchIdle ==
    /\ xPc = "off" /\ xCall = [fn |-> "none"] /\ xRet = [fn |-> "none"]

-----------------------------------------------------------------------------
(* Specifications                                                          *)

MergeSpecInit == MergeInit /\ RunIdle /\ CascIdle /\ FlagIdle
    /\ ReportIdle /\ MatchIdle

MergeNext ==
    \/ DoMergeOfficial
    \/ DoMergePartial
    \/ DoMergeOld
    \/ DoMergeOfficialAgain
    \/ DoMergePartialAgain

\* the merge functions applied to bounded inputs
SpecMerge == MergeSpecInit /\ [][MergeNext]_vars

Init == MergeIdle /\ RunInit /\ CascIdle /\ FlagIdle /\ ReportIdle /\ MatchIdle

Next ==
    \/ StartRun
    \/ StartFails
    \/ LoopSkip
    \/ LoopNoTitle
    \/ LoopHasTitle
    \/ SearchBlocked
    \/ SearchError
    \/ SearchReturns
    \/ WriteOpen
    \/ WriteData
    \/ LoopEnd
    \/ Interrupt

\* runs of validate.py / old_validate.py over one bibliography
Spec == Init /\ [][Next]_vars

CascSpecInit == MergeIdle /\ RunIdle /\ CascInit /\ FlagIdle /\ ReportIdle /\ MatchIdle

CascNext ==
    \/ CascLoad
    \/ CascLoadFails
    \/ CascMissingTitle
    \/ CascStart
    \/ CascCall
    \/ CascPass
    \/ CascDecide
    \/ CascWrite

\* one run of a cascade script over its entries
SpecCascade == CascSpecInit /\ [][CascNext]_vars

ProgramsInit == Init \/ CascSpecInit

ProgramsNext ==
    \/ StartRun
    \/ StartFails
    \/ LoopSkip
    \/ LoopNoTitle
    \/ LoopHasTitle
    \/ SearchBlocked
    \/ SearchError
    \/ SearchReturns
    \/ WriteOpen
    \/ WriteData
    \/ LoopEnd
    \/ Interrupt
    \/ CascLoad
    \/ CascLoadFails
    \/ CascMissingTitle
    \/ CascStart
    \/ CascCall
    \/ CascPass
    \/ CascDecide
    \/ CascWrite

\* a process of any of the scripts that take a bibliography or a report:
\* runs of validate.py / old_validate.py, or one run of a cascade script
SpecPrograms == ProgramsInit /\ [][ProgramsNext]_vars

FlagSpecInit == MergeIdle /\ RunIdle /\ CascIdle /\ FlagInit
    /\ ReportIdle /\ MatchIdle

FlagNext ==
    \/ FlagNoArxivId
    \/ FlagFetch
    \/ FlagExistSkip
    \/ FlagExist
    \/ FlagDone

\* one run of bs_check.py or check_semantic.py over its entries
SpecFlag == FlagSpecInit /\ [][FlagNext]_vars

ReportSpecInit ==
    MergeIdle /\ RunIdle /\ CascIdle /\ FlagIdle /\ ReportInit /\ MatchIdle

ReportNext ==
    \/ WriteReport
    \/ LoadReport

\* the flagged report written and read back
SpecReport == ReportSpecInit /\ [][ReportNext]_vars

MatchSpecInit ==
    MergeIdle /\ RunIdle /\ CascIdle /\ FlagIdle /\ ReportIdle /\ MatchInit

MatchNext ==
    \/ CallFuzzyRatio
    \/ CallParseLastName
    \/ CallTitleMatch
    \/ CallAuthorsOverlap
    \/ CallWithOneMore

\* the matching functions applied to bounded arguments
SpecMatch == MatchSpecInit /\ [][MatchNext]_vars

-----------------------------------------------------------------------------
(* Properties                                                              *)

\* C1: the fill-missing-preserve-original merges
\* (merge_entries_preserving_original, merge_partial_pub_data) never
\* replace a non-empty field: whenever a merge returns, every field whose
\* value in the original is non-empty is in the output with that value.
C1_PreservesOriginal ==
    (mPc \in {"official", "partial"} /\ ~mRaised) =>
        \A f \in DOMAIN mOriginal :
            Truthy(mOriginal[f]) =>
                f \in DOMAIN mOutput /\ mOutput[f] = mOriginal[f]

\* the official entry offers a different title for an entry that has one,
\* and the merged entry keeps the original's
C1_Witness ==
    /\ mPc = "official"
    /\ "title" \in DOMAIN mOriginal
    /\ "title" \in DOMAIN mOfficial
    /\ IsMismatch(mOriginal["title"], mOfficial["title"])
    /\ mOutput["title"] = mOriginal["title"]

\* C2: once an adapter has accepted a candidate for an entry, no adapter is
\* called for that entry any more: a call that returned True is the last
\* call made for its entry.
C2_ShortCircuit ==
    \A k \in 1..Len(calls) :
        calls[k].result =>
            \A j \in (k + 1)..Len(calls) : calls[j].entry # calls[k].entry

\* an adapter that is not the last of its cascade accepted, and the loop
\* has gone past that entry
C2_Witness ==
    \E k \in 1..Len(calls) :
        /\ calls[k].result
        /\ calls[k].adapter # Adapters[prog][Len(Adapters[prog])]
        /\ cIdx > calls[k].entry

\* C3: when the loop is at its head, about to take the next entry, the
\* output file holds the full accumulated result list: every entry that
\* reached a terminal state (merged, kept as original, kept for lack of a
\* title) was written before the next one begins.
C3_WrittenBeforeNext ==
    pc = "loop" =>
        /\ disk.entries = corrected
        /\ corrected # <<>> => disk.exists

\* an entry was appended in this run, and another entry is still to come
C3_Witness ==
    /\ pc = "loop"
    /\ Len(corrected) > Len(diskAtStart.entries)
    /\ idx <= Len(input)

\* C4: whenever a run has been interrupted, the output file still holds
\* every entry that had reached a terminal state and been persisted before
\* the entry in flight.
C4_InterruptLosesOnlyInflight ==
    (pc = "exited" /\ exitReason = "interrupt") =>
        terminal \subseteq Elems(disk.entries)

\* C5: an input entry whose id is in the output file found at the start of
\* the run is skipped: no lookup is made for it, nothing is appended for
\* its id, and the entries loaded from the file stay as they were.
C5_SkipsProcessed ==
    pc \notin {"idle"} =>
        \A i \in 1..Len(input) :
            input[i].ID \in IdsOf(diskAtStart.entries) =>
                /\ \A k \in 1..Len(lookups) : lookups[k] # i
                /\ Len(corrected) >= Len(diskAtStart.entries)
                /\ SubSeq(corrected, 1, Len(diskAtStart.entries))
                       = diskAtStart.entries
                /\ \A k \in (Len(diskAtStart.entries) + 1)..Len(corrected) :
                       corrected[k].ID # input[i].ID

\* the loop has gone past an entry whose id was in the prior output
C5_Witness ==
    /\ pc = "loop"
    /\ diskAtStart.exists
    /\ \E i \in 1..Len(input) :
           i < idx /\ input[i].ID \in IdsOf(diskAtStart.entries)

\* C6: a run that starts with every input id already in the output file
\* makes no external call and leaves the output file as it was.
C6_Idempotent ==
    (pc \notin {"idle"} /\ IdsOf(input) \subseteq IdsOf(diskAtStart.entries))
        => lookups = <<>> /\ disk = diskAtStart

\* such a run ran to its end
C6_Witness ==
    /\ pc = "exited"
    /\ exitReason = "finished"
    /\ IdsOf(input) \subseteq IdsOf(diskAtStart.entries)

CallsOf(i) == SelectSeq(calls, LAMBDA c : c.entry = i)

IsFlagged(i) == \E k \in 1..Len(flagged) : flagged[k].entry = i

Accepted(i) == \E k \in 1..Len(calls) : calls[k].entry = i /\ calls[k].result

AllRejected(i) ==
    /\ Len(CallsOf(i)) = Len(Adapters[prog])
    /\ \A k \in 1..Len(CallsOf(i)) :
           /\ CallsOf(i)[k].adapter = Adapters[prog][k]
           /\ ~CallsOf(i)[k].result

\* C7: an entry with a title that the loop has dealt with is in the flagged
\* (bad) list exactly when every adapter of the cascade was called for it,
\* in priority order, and none accepted; an accepted entry is never in the
\* list.
C7_FlaggedIffExhausted ==
    /\ \A i \in 1..Len(cEntries) : Accepted(i) => ~IsFlagged(i)
    /\ \A i \in 1..Len(cEntries) :
           (i < cIdx /\ Truthy(cEntries[i].title)) =>
               (IsFlagged(i) <=> AllRejected(i))

\* the run is over with one entry flagged after the whole cascade and
\* another accepted
C7_Witness ==
    /\ cPc = "done"
    /\ \E i \in 1..Len(cEntries) : IsFlagged(i) /\ AllRejected(i)
    /\ \E i \in 1..Len(cEntries) : Accepted(i)

NoDuplicateIds(entries) ==
    \A i, j \in 1..Len(entries) : i # j => entries[i].ID # entries[j].ID

\* C8: no entry id is twice in the accumulated result list, nor in the
\* output file, in any state of any run.
C8_UniqueIds == NoDuplicateIds(corrected) /\ NoDuplicateIds(disk.entries)

\* C9: within a run the processed-id set never shrinks, and it is always a
\* subset of the ids of the input bibliography, also right after it is
\* loaded from the output file of earlier runs over that bibliography.
C9_ProcessedIds ==
    /\ processed_ids \subseteq IdsOf(input)
    /\ [][/\ run' = run => processed_ids \subseteq processed_ids'
          /\ processed_ids' \subseteq IdsOf(input')]_vars

\* a run that loaded processed ids from the file has added one
C9_Witness ==
    /\ pc = "loop"
    /\ IdsOf(diskAtStart.entries) # {}
    /\ IdsOf(diskAtStart.entries) \subseteq processed_ids
    /\ processed_ids # IdsOf(diskAtStart.entries)

C11_NoSingleFailureHalts ==
    (pc = "exited" /\ exitReason \notin {"blocked", "interrupt"}) =>
        IdsOf(input) \subseteq processed_ids

\* C12: no call of a source adapter raises to its caller: a transport
\* failure, a timeout, a non-success response or a malformed payload comes
\* back as the no-candidate result.
C12_AdaptersNeverRaise == ~fRaised

\* C13: every outbound call is followed by a delay before control is back
\* in the loop over the entries, so that no two outbound calls are made
\* without a delay between them.
C13_DelayAfterEveryCall ==
    /\ fSinceDelay <= 1
    /\ fPc = "loop" => fSinceDelay = 0

\* C14: when a run has ended on the operator's interrupt, the output file
\* holds every entry that had reached a terminal state (it is in the result
\* list and its id is marked processed), and holds nothing of the entry
\* whose processing had begun but not finished.
C14_InterruptPersistsTerminal ==
    (pc = "exited" /\ exitReason = "interrupt") =>
        /\ Elems(corrected) \subseteq Elems(disk.entries)
        /\ (idx <= Len(input) /\ input[idx].ID \notin processed_ids) =>
               input[idx].ID \notin IdsOf(disk.entries)

\* titleMatches and, for Crossref and ArXiv, authorsOverlap, of a candidate
\* that could be read
Satisfies(adapter, c) ==
    /\ ~c.malformed
    /\ c.ratio >= TITLE_MATCH_THRESHOLD
    /\ adapter \in {"find_on_crossref", "find_on_arxiv"} => c.authors_ok

LastAdapter == calls[Len(calls)].adapter

LastResult == calls[Len(calls)].result

\* C15 as stated: the adapter reports a match exactly when some candidate
\* it fetched satisfies the required predicates.
C15_MatchIffSomeCandidate ==
    calls # <<>> =>
        (LastResult <=>
            \E i \in 1..Len(lastCall.cands) :
                Satisfies(LastAdapter, lastCall.cands[i]))

\* C15 (amended): the adapter reports a match exactly when some candidate
\* satisfies the required predicates and no candidate before it in the
\* returned order is malformed; the candidates are evaluated in that order
\* and none is evaluated after the first that satisfies the predicates or
\* is malformed.
C15_MatchIffFirstGood ==
    calls # <<>> =>
        LET cands == lastCall.cands
            stops == {i \in 1..Len(cands) :
                        Satisfies(LastAdapter, cands[i]) \/ cands[i].malformed}
        IN  /\ LastResult <=>
                 \E i \in 1..Len(cands) :
                     /\ Satisfies(LastAdapter, cands[i])
                     /\ \A j \in 1..(i - 1) : ~cands[j].malformed
            /\ stops # {} =>
                 /\ lastCall.evaluated \in stops
                 /\ \A i \in stops : lastCall.evaluated <= i
            /\ stops = {} => lastCall.evaluated = Len(cands)

\* Crossref or ArXiv accepted its second candidate after a first whose
\* title matched and whose authors did not
C15_Witness ==
    /\ calls # <<>>
    /\ LastResult
    /\ LastAdapter \in {"find_on_crossref", "find_on_arxiv"}
    /\ lastCall.evaluated = 2
    /\ lastCall.cands[1].ratio >= TITLE_MATCH_THRESHOLD
    /\ ~lastCall.cands[1].authors_ok

\* the candidate of the merge that ran: the official entry, or pub.bib with
\* a list of authors joined the way an entry writes them
CandidateFields ==
    IF mPc = "official" THEN DOMAIN mOfficial ELSE DOMAIN mPartial

CandidateValue(f) ==
    IF mPc = "official" THEN mOfficial[f]
    ELSE IF mPartial[f].isList THEN join(AndSep, mPartial[f].v)
    ELSE mPartial[f].v

CandidateNonEmpty(f) ==
    IF mPc = "official" THEN Truthy(mOfficial[f]) ELSE Truthy(mPartial[f].v)

FilledIn(f) ==
    (CandidateNonEmpty(f) /\ ~Truthy(Get(mOriginal, f, EMPTY))) =>
        f \in DOMAIN mOutput /\ mOutput[f] = CandidateValue(f)

\* C16 as stated: the entry a preserve-original merge returns carries the
\* candidate's value in every field in which the candidate has a non-empty
\* value and the original has none (an entry has no field "venue": where
\* the venue goes is C18).
C16_FillsEveryField ==
    (mPc \in {"official", "partial"} /\ ~mRaised) =>
        \A f \in CandidateFields \ {"venue"} : FilledIn(f)

\* C16 (amended): the same for every field of the official BibTeX entry
\* other than ID and ENTRYTYPE, and for the fields title, author, year and
\* abstract of partial publication data (the venue goes to booktitle or
\* journal, see C18; other keys of pub.bib are not looked at).
C16_FillsHandledFields ==
    (mPc \in {"official", "partial"} /\ ~mRaised) =>
        \A f \in CandidateFields :
            (IF mPc = "official" THEN f \notin {"ID", "ENTRYTYPE"}
             ELSE f \in {"title", "author", "year", "abstract"})
                => FilledIn(f)

\* partial data filled in a missing title and, from a list, the missing
\* authors
C16_Witness ==
    /\ mPc = "partial"
    /\ ~mRaised
    /\ "title" \in DOMAIN mPartial
    /\ ~Truthy(Get(mOriginal, "title", EMPTY))
    /\ mOutput["title"] = mPartial["title"].v
    /\ "author" \in DOMAIN mPartial
    /\ mPartial["author"].isList
    /\ Truthy(mPartial["author"].v)
    /\ ~Truthy(Get(mOriginal, "author", EMPTY))
    /\ mOutput["author"] = join(AndSep, mPartial["author"].v)

\* C17: for every field (ID and ENTRYTYPE are the entry's identity, not
\* fields) in which the original and the candidate both have a non-empty
\* value and the trimmed values differ, the merge has reported a mismatch
\* with the field, the original value and the candidate's value.
C17_MismatchesReported ==
    mPc \in {"official", "partial"} =>
        \A f \in (CandidateFields \cap DOMAIN mOriginal)
                    \ {"ID", "ENTRYTYPE"} :
            (/\ Truthy(mOriginal[f])
             /\ CandidateNonEmpty(f)
             /\ strip(mOriginal[f]) # strip(CandidateValue(f)))
                => <<f, mOriginal[f], CandidateValue(f)>> \in mReports

HasVenueToken(v) == \E token \in VenueTokens : Contains(lower(v), token)

Unchanged(f) ==
    /\ f \in DOMAIN mOutput <=> f \in DOMAIN mOriginal
    /\ f \in DOMAIN mOriginal => mOutput[f] = mOriginal[f]

C19_OriginalKept ==
    lastCase.case \in {"no_pub", "unparsed", "no_partial"} =>
        LET e == input[lastCase.entry]
        IN  /\ exitReason # "exception" =>
                   \E k \in 1..Len(corrected) : corrected[k] = e
            /\ \A k \in 1..Len(corrected) :
                   corrected[k].ID = e.ID => corrected[k] = e

\* the entry at position i carries a title-mismatch annotation
MismatchAnnotated(i) ==
    \E k \in 1..Len(annotations) :
        annotations[k] = [entry |-> i, kind |-> "Title Mismatch"]

\* the fetched official title and the entry's title, trimmed and case-folded,
\* are different strings
DifferFolded(i) ==
    strip(lower(fOfficial[i].v)) #
        strip(lower(Get(fEntries[i], "title", EMPTY)))

\* C20 (as stated): an entry whose official title was fetched is annotated
\* as a title mismatch exactly when the two titles differ after trimming and
\* case-folding.
C20_MismatchIffDiffer ==
    \A i \in 1..Len(fOfficial) :
        OptTruthy(fOfficial[i]) => (MismatchAnnotated(i) <=> DifferFolded(i))

\* C20 (amended): the same equivalence, except that check_semantic.py never
\* annotates an entry whose own title is empty.
C20_MismatchIffDifferTitled ==
    \A i \in 1..Len(fOfficial) :
        OptTruthy(fOfficial[i]) =>
            (MismatchAnnotated(i) <=>
                /\ DifferFolded(i)
                /\ fProg = "check_semantic" =>
                       Get(fEntries[i], "title", EMPTY) # EMPTY)

\* one entry annotated, and another whose title equals the official one only
\* after trimming and case-folding left without annotation
C20_Witness ==
    /\ \E i \in 1..Len(fOfficial) :
           OptTruthy(fOfficial[i]) /\ MismatchAnnotated(i)
    /\ \E j \in 1..Len(fOfficial) :
           /\ OptTruthy(fOfficial[j])
           /\ ~MismatchAnnotated(j)
           /\ fOfficial[j].v # Get(fEntries[j], "title", EMPTY)

\* C21: an entry whose archiveprefix names arXiv (in any case) and whose
\* eprint is not empty gets its eprint value as the identifier, and none of
\* booktitle, url, title is scanned for it.
C21_EprintWithoutScan ==
    \A i \in 1..Len(fExtracted) :
        LET archiveprefix == Get(fEntries[i], "archiveprefix", EMPTY)
            eprint_val == Get(fEntries[i], "eprint", EMPTY)
        IN  (lower(archiveprefix) = ARXIV /\ eprint_val # EMPTY) =>
                fExtracted[i] = [id |-> Some(eprint_val), scanned |-> 0]

\* an entry with archiveprefix "arXiv", an eprint and another arXiv id in
\* its url has gone through the extractor
C21_Witness ==
    \E i \in 1..Len(fExtracted) :
        /\ Get(fEntries[i], "archiveprefix", EMPTY) \notin {EMPTY, ARXIV}
        /\ lower(Get(fEntries[i], "archiveprefix", EMPTY)) = ARXIV
        /\ Get(fEntries[i], "eprint", EMPTY) # EMPTY
        /\ OptTruthy(parse_arxiv_id_from_text(Get(fEntries[i], "url", EMPTY)))
        /\ fExtracted[i].scanned = 0

IsNonBlank(line) == strip(line) # <<>>

\* the lines of the report file that are not blank, stripped
NonBlankLines(text) ==
    LET kept == SelectSeq(FileLines(text), IsNonBlank)
    IN  [i \in 1..Len(kept) |-> strip(kept[i])]

HasLeadingBrackets(line) ==
    line # <<>> /\ line[1] = "[" /\ \E k \in 2..Len(line) : line[k] = "]"

HasBrackets(line) ==
    \E i \in 1..Len(line) :
        line[i] = "[" /\ \E k \in (i + 1)..Len(line) : line[k] = "]"

\* what stands between the leading "[" and the first "]"
LeadingContent(line) ==
    SubSeq(line, 2, Least({k \in 2..Len(line) : line[k] = "]"}) - 1)

\* the text of a line after its leading brackets (the whole line if it has
\* none)
AfterBrackets(line) ==
    IF HasLeadingBrackets(line)
    THEN SubSeq(line, Least({k \in 2..Len(line) : line[k] = "]"}) + 1,
                Len(line))
    ELSE line

\* the non-empty pieces of a text that stand between two quote characters
\* with no quote character inside
QuotedSubstrings(text) ==
    { SubSeq(text, p + 1, q - 1) :
        <<p, q>> \in { pq \in (1..Len(text)) \X (1..Len(text)) :
                         /\ pq[1] + 1 < pq[2]
                         /\ text[pq[1]] \in QuoteChars
                         /\ text[pq[2]] \in QuoteChars
                         /\ \A m \in (pq[1] + 1)..(pq[2] - 1) :
                                text[m] \notin QuoteChars } }

HoldsAt(text, i, piece) ==
    /\ i + Len(piece) - 1 <= Len(text)
    /\ SubSeq(text, i, i + Len(piece) - 1) = piece

\* C23: the report check_bibliography wrote has exactly one line for every
\* flagged entry, in order, and the line of an entry begins with "[", the
\* entry's id and "] ", and holds the entry's title (if it has one) between
\* two quote characters.
C23_OneLinePerFlagged ==
    (rPc \in {"written", "loaded"} /\ rEntries # <<>>) =>
        LET lines == FileLines(rFile)
        IN  /\ Len(lines) = Len(rEntries)
            /\ \A i \in 1..Len(rEntries) :
                 LET head == <<"[">> \o rEntries[i].id \o <<"]", " ">>
                 IN  /\ HoldsAt(lines[i], 1, head)
                     /\ Truthy(rEntries[i].title) =>
                          \E p \in (Len(head) + 1)..Len(lines[i]) :
                              /\ lines[i][p] \in QuoteChars
                              /\ HoldsAt(lines[i], p + 1, rEntries[i].title)
                              /\ p + Len(rEntries[i].title) + 1
                                     <= Len(lines[i])
                              /\ lines[i][p + Len(rEntries[i].title) + 1]
                                     \in QuoteChars

\* the two titles of the call in the order the script compares them
\* (check_semantic.py passes the candidate first), in lower case
ComparedFirst ==
    lower(IF xCall.script = "check_semantic" THEN xCall.candidate_title
          ELSE xCall.bib_title)

ComparedSecond ==
    lower(IF xCall.script = "check_semantic" THEN xCall.bib_title
          ELSE xCall.candidate_title)

\* C24: the title test of a script accepts a candidate exactly when the
\* similarity of the two titles in lower case (twice the matched characters
\* over the sum of the lengths, 1 for two empty titles) times 100 is at
\* least 75.
C24_TitleMatchesIffAtLeast75 ==
    (xPc = "returned" /\ xCall.fn = "title_match") =>
        (xRet.result <=>
            200 * MatchingSize(ComparedFirst, ComparedSecond,
                               1, Len(ComparedFirst), 1, Len(ComparedSecond))
              >= 75 * (Len(ComparedFirst) + Len(ComparedSecond)))

\* a candidate whose title differs in case and whose similarity is 0.75
\* exactly was accepted
C24_Witness ==
    /\ xPc = "returned"
    /\ xCall.fn = "title_match"
    /\ xRet.result
    /\ xCall.bib_title # lower(xCall.bib_title)
    /\ Len(xCall.bib_title) + Len(xCall.candidate_title) = 8
    /\ MatchingSize(ComparedFirst, ComparedSecond,
                    1, Len(ComparedFirst), 1, Len(ComparedSecond)) = 3

\* how many authors of a list are not blank
RECURSIVE Listed(_)
Listed(authors) ==
    IF authors = <<>> THEN 0
    ELSE (IF strip(Head(authors)) # EMPTY THEN 1 ELSE 0)
             + Listed(Tail(authors))

\* C25: authors_overlap_fuzzy passes when the entry lists no author;
\* otherwise it passes exactly when the matched count over the number of
\* the entry's authors is at least 0.6, and so it fails when the candidate
\* lists no author.
C25_OverlapIffSixTenths ==
    (xPc = "returned" /\ xCall.fn = "authors_overlap_fuzzy") =>
        LET total == Listed(xCall.bib_authors)
        IN  /\ total = 0 => xRet.result
            /\ total > 0 =>
                 (xRet.result <=> 10 * xRet.matched_count >= 6 * total)
            /\ (total > 0 /\ Listed(xCall.found_authors) = 0) =>
                 ~xRet.result

\* three of five authors matched, and the candidate passed
C25_Witness ==
    /\ xPc = "returned"
    /\ xCall.fn = "authors_overlap_fuzzy"
    /\ Listed(xCall.bib_authors) = 5
    /\ xRet.matched_count = 3
    /\ xRet.result

\* C27: with the same bibliography authors, a candidate that lists one
\* author more (anywhere in its list) never has fewer bibliography authors
\* matched by the greedy assignment than before.
C27_OneMoreNeverFewer ==
    (xPc = "returned" /\ xCall.fn = "authors_overlap_fuzzy") =>
        xRet.before <= xRet.matched_count

\* a third candidate author raised the count
C27_Witness ==
    /\ xPc = "returned"
    /\ xCall.fn = "authors_overlap_fuzzy"
    /\ xRet.before < xRet.matched_count
    /\ Len(xCall.found_authors) = MaxFoundAuthors

\* C26: the similarity ratio does not depend on the order of its two
\* arguments: fuzzy_ratio(a, b) = fuzzy_ratio(b, a).
C26_RatioSymmetric ==
    (xPc = "returned" /\ xCall.fn = "fuzzy_ratio") =>
        xRet.ratio = fuzzy_ratio(xCall.b, xCall.a)

\* C28: a run that completes normally exits with code 0 however many
\* entries were flagged, and a run aborted by a missing or unreadable input
\* or by a blocked source exits with a non-zero code.
\* (validate.py, old_validate.py: the run went through every entry and
\* printed that it finished; cascade scripts: the report was written.)
C28_ExitCodes ==
    /\ (pc = "exited" /\ exitReason = "finished") => exitCode = <<0>>
    /\ cPc = "done" => cExit = <<0>>
    /\ (pc = "exited" /\ exitReason \in {"no_input", "blocked"}) =>
           exitCode \notin {Running, <<0>>}
    /\ cPc = "failed" => cExit \notin {Running, <<0>>}

\* C29: when the input is missing or unreadable the run fails at startup
\* before any entry is processed: the step that finds the bad input ends
\* the process with no entry processed and no lookup or adapter call made,
\* and the output file is neither loaded, nor written, nor changed.
C29_FailsAtStartup ==
    [][ /\ inputFile' \in BadInputs =>
             /\ pc' = "exited"
             /\ corrected' = <<>> /\ processed_ids' = {}
             /\ lookups' = <<>>
             /\ outputAccess' = {}
             /\ disk' = disk
        /\ cInputFile' \in BadInputs =>
             /\ cPc' \in {"start", "failed"}
             /\ cIdx' = 1
             /\ calls' = <<>> /\ flagged' = <<>>
             /\ cOutput' = "untouched" ]_vars

\* a process found no readable input where an earlier process had left an
\* output file with entries
C29_Witness ==
    /\ pc = "exited" /\ exitReason = "no_input"
    /\ inputFile \in BadInputs
    /\ disk.exists /\ disk.entries # <<>>

\* One run from no output file to its end with nothing stopping it, the
\* search returning answers[title] for each title: validate.py:216-289
\* (old_validate.py:135-238) taken entry by entry.  [ok, list]: ok is
\* false when the run cannot get to its end (an exception, or a title
\* the search was never asked).
RECURSIVE Uninterrupted(_, _, _, _, _, _)
Uninterrupted(v, entries, i, ids, list, m) ==
    IF i > Len(entries) THEN [ok |-> TRUE, list |-> list]
    ELSE LET entry == entries[i]
             title == TitleOf(entry)
         IN  IF AlreadyProcessed(entry.ID, ids)
             THEN Uninterrupted(v, entries, i + 1, ids, list, m)
             ELSE IF ~Truthy(title)
             THEN Uninterrupted(v, entries, i + 1,
                                AddProcessed(ids, entry.ID),
                                Append(list, entry), m)
             ELSE IF title \notin DOMAIN answers
             THEN [ok |-> FALSE, list |-> list]
             ELSE LET r == ProcessPub(v, entry, answers[title], m)
                  IN  IF r.raised THEN [ok |-> FALSE, list |-> list]
                      ELSE Uninterrupted(v, entries, i + 1,
                                         AddProcessed(ids, entry.ID),
                                         list \o r.appended, r.merged)

\* C30: a bibliography run to its end after crashes, interrupts or block
\* aborts and resumes has the same final result list (entries, order, field
\* values) as one uninterrupted run, provided the search returned the same
\* for each title every time.
C30_ResumeSameResult ==
    (pc = "exited" /\ exitReason = "finished" /\ sameAnswers) =>
        LET u == Uninterrupted(variant, input, 1, {}, <<>>, Unbound)
        IN  /\ u.ok
            /\ corrected = u.list
            /\ disk.entries = u.list

\* a run got to its end after an earlier one was interrupted while it was
\* writing: it started from the emptied output file, asked every title
\* again and was answered as before
C30_Witness ==
    /\ pc = "exited" /\ exitReason = "finished" /\ sameAnswers
    /\ run = 2
    /\ diskAtStart.exists /\ diskAtStart.entries = <<>>
    /\ Len(lookups) = 2
    /\ Len(corrected) >= 2

\* C31: for every entry check_bibliography flagged with a non-empty title,
\* load_flagged_references applied to the written report gives a record
\* with the same entry id and the same title.
C31_RoundTrip ==
    rPc = "loaded" =>
        \A i \in 1..Len(rEntries) :
            Truthy(rEntries[i].title) =>
                \E j \in 1..Len(rRecords) :
                    /\ rRecords[j].id = rEntries[i].id
                    /\ rRecords[j].title = Some(rEntries[i].title)

\* C32: every entry appended to the result list for an input entry carries
\* that input entry's ID and ENTRYTYPE; so after a complete run the ids in
\* the output are the ids of the input, and a later run skips every entry.
C32_AppendedCarriesId ==
    /\ [][ (pc \in {"loop", "search"} /\ corrected' # corrected) =>
             /\ Len(corrected') > Len(corrected)
             /\ \A k \in (Len(corrected) + 1)..Len(corrected') :
                  /\ corrected'[k].ID = input[idx].ID
                  /\ Get(corrected'[k], "ENTRYTYPE", <<"m", "i", "s", "c">>)
                         = Get(input[idx], "ENTRYTYPE", <<"m", "i", "s", "c">>) ]_vars
    /\ []( (pc = "exited" /\ exitReason = "finished") =>
             /\ IdsOf(disk.entries) = IdsOf(input)
             /\ \A i \in 1..Len(input) :
                  AlreadyProcessed(input[i].ID,
                      ProcessedIdsOf(load_existing_output_db(disk))) )

\* does a recognizer pattern match somewhere in the field value
Recognized(value) ==
    \/ ~FirstMatch(value, "abs").isNone
    \/ ~FirstMatch(value, "colon").isNone

\* C33: when the eprint fields do not apply, the identifier is that of the
\* first of booktitle, url, title that a pattern matches, the
\* "arxiv.org/abs/<id>" pattern before the "arxiv: <id>" one within that
\* field; when no field matches there is no identifier and no lookup of the
\* official title is made for the entry.
C33_FirstMatchingField ==
    \A i \in 1..Len(fExtracted) :
        LET entry == fEntries[i]
            fields == <<Get(entry, "booktitle", EMPTY),
                        Get(entry, "url", EMPTY),
                        Get(entry, "title", EMPTY)>>
            hits == {k \in 1..3 : Recognized(fields[k])}
            first == CHOOSE k \in hits : \A h \in hits : k <= h
        IN  ~( /\ lower(Get(entry, "archiveprefix", EMPTY)) = ARXIV
               /\ Get(entry, "eprint", EMPTY) # EMPTY ) =>
                IF hits = {}
                THEN fExtracted[i].id = PyNone /\ i \notin fFetched
                ELSE fExtracted[i].id =
                       IF ~FirstMatch(fields[first], "abs").isNone
                       THEN FirstMatch(fields[first], "abs")
                       ELSE FirstMatch(fields[first], "colon")

\* the extractor has handled an entry whose booktitle holds both patterns
\* with different identifiers and whose url holds a third one, and an entry
\* with no identifier anywhere, for which nothing was fetched
C33_Witness ==
    /\ \E i \in 1..Len(fExtracted) :
        LET booktitle == Get(fEntries[i], "booktitle", EMPTY)
            url == Get(fEntries[i], "url", EMPTY)
        IN  /\ "eprint" \notin DOMAIN fEntries[i]
            /\ ~FirstMatch(booktitle, "abs").isNone
            /\ ~FirstMatch(booktitle, "colon").isNone
            /\ FirstMatch(booktitle, "abs") # FirstMatch(booktitle, "colon")
            /\ Recognized(url)
            /\ fExtracted[i].id = FirstMatch(booktitle, "abs")
            /\ i \in fFetched
    /\ \E j \in 1..Len(fExtracted) :
        /\ fExtracted[j].id = PyNone
        /\ j \notin fFetched

\* C34: in the greedy assignment a candidate last name is matched to at
\* most one bibliography last name, every accepted pair has a fuzzy ratio
\* of at least 75, and the matched count exceeds neither the number of
\* bibliography authors nor the number of candidate authors.
C34_GreedyAssignment ==
    (xPc = "returned" /\ xCall.fn = "authors_overlap_fuzzy") =>
        LET bib_last == LastNames(xCall.bib_authors)
            found_last == LastNames(xCall.found_authors)
        IN  /\ \A p \in xRet.pairs, q \in xRet.pairs :
                 p[2] = q[2] => p = q
            /\ \A p \in xRet.pairs :
                 /\ p[1] \in 1..Len(bib_last)
                 /\ p[2] \in 1..Len(found_last)
                 /\ 1 * fuzzy_ratio(bib_last[p[1]], found_last[p[2]]).num >=
                    75 * fuzzy_ratio(bib_last[p[1]], found_last[p[2]]).den
            /\ xRet.matched_count = Cardinality(xRet.pairs)
            /\ xRet.matched_count <= Len(bib_last)
            /\ xRet.matched_count <= Len(found_last)

\* a bibliography author stayed unmatched although a candidate scores at
\* least 75 against it: that candidate was taken by an earlier author
C34_Witness ==
    /\ xPc = "returned"
    /\ xCall.fn = "authors_overlap_fuzzy"
    /\ LET bib_last == LastNames(xCall.bib_authors)
           found_last == LastNames(xCall.found_authors)
       IN  \E n \in 1..Len(bib_last), p \in xRet.pairs :
            /\ \A q \in xRet.pairs : q[1] # n
            /\ p[1] < n
            /\ 1 * fuzzy_ratio(bib_last[n], found_last[p[2]]).num >=
               75 * fuzzy_ratio(bib_last[n], found_last[p[2]]).den

\* C35: an entry with an empty title triggers no outbound call:
\* check_bibliography flags it as missing a title; validate.py looks nothing
\* up for it, keeps it unchanged, marks it processed and has it in the
\* checkpoint once the loop has moved on; check_semantic.py fetches nothing
\* for it.
C35_NoCallWithoutTitle ==
    /\ \A i \in 1..Len(input) :
         ~Truthy(TitleOf(input[i])) =>
             /\ \A k \in 1..Len(lookups) : lookups[k] # i
             /\ (pc = "loop" /\ i < idx) =>
                  /\ input[i].ID \in processed_ids
                  /\ \E k \in 1..Len(corrected) : corrected[k] = input[i]
                  /\ \E k \in 1..Len(disk.entries) :
                       disk.entries[k] = input[i]
    /\ prog = "crossref_arxiv" =>
         \A i \in 1..Len(cEntries) :
             ~Truthy(cEntries[i].title) =>
                 /\ \A k \in 1..Len(calls) : calls[k].entry # i
                 /\ i < cIdx =>
                      \E k \in 1..Len(flagged) :
                          /\ flagged[k].entry = i
                          /\ flagged[k].why = "missing title"
    /\ fProg = "check_semantic" =>
         \A i \in 1..Len(fEntries) :
             ~Truthy(strip(Get(fEntries[i], "title", EMPTY))) =>
                 i \notin fFetched

FlaggedPass == {"cvf_openreview", "final_filter"}

\* C36: in the flagged-reference pass a record without a parsed title goes
\* to the bad list with no adapter invoked for it, and the bad list holds at
\* most one item per flagged record, in the order of the flagged report.
C36_BadListOrdered ==
    prog \in FlaggedPass =>
        /\ \A i \in 1..Len(cEntries) :
             ~Truthy(cEntries[i].title) =>
                 /\ \A k \in 1..Len(calls) : calls[k].entry # i
                 /\ i < cIdx =>
                      \E k \in 1..Len(flagged) :
                          /\ flagged[k].entry = i
                          /\ flagged[k].id = cEntries[i].id
        /\ \A k \in 1..Len(flagged), l \in 1..Len(flagged) :
             k < l => flagged[k].entry < flagged[l].entry
        /\ cPc = "done" => cOutput = "written"

\* the pass has ended with a record without a title first in the bad list
\* and a record no adapter found after it
C36_Witness ==
    /\ prog \in FlaggedPass
    /\ cPc = "done"
    /\ Len(flagged) = 2
    /\ ~Truthy(cEntries[1].title)
    /\ flagged[1].why = "missing title"
    /\ flagged[2].why = "no match"
    /\ \E k \in 1..Len(calls) : calls[k].entry = 2

\* C37: the fill-missing-preserve-original merge is idempotent: merging the
\* same candidate into the merged entry returns that entry unchanged, for
\* merge_entries_preserving_original and for merge_partial_pub_data.
C37_MergeIdempotent ==
    mPc \in {"official again", "partial again"} =>
        /\ ~mAgain.raised
        /\ mAgain.merged = mOutput

\* the text of s before its first comma
BeforeFirstComma(s) ==
    SubSeq(s, 1, (CHOOSE i \in 1..Len(s) :
                     s[i] = "," /\ \A k \in 1..(i - 1) : s[k] # ",") - 1)

\* the last of the tokens that white space separates in s (s is not blank)
FinalToken(s) ==
    LET last == CHOOSE i \in 1..Len(s) :
                    s[i] # " " /\ \A k \in (i + 1)..Len(s) : s[k] = " "
        first == CHOOSE i \in 1..last :
                    /\ \A k \in i..last : s[k] # " "
                    /\ i > 1 => s[i - 1] = " "
    IN  SubSeq(s, first, last)

IsBlank(s) == \A i \in 1..Len(s) : s[i] = " "

\* C38 as stated: the last name of an author string is the lower-cased
\* text before its first comma when it has a comma, and otherwise its final
\* whitespace-delimited token.
C38_LastNameAsStated ==
    (xPc = "returned" /\ xCall.fn = "parse_last_name"
        /\ ~IsBlank(xCall.author_str)) =>
        xRet.last =
            IF \E i \in 1..Len(xCall.author_str) : xCall.author_str[i] = ","
            THEN lower(BeforeFirstComma(xCall.author_str))
            ELSE lower(FinalToken(xCall.author_str))

\* C38: the last name of an author string is the lower-cased text before
\* its first comma, without the white space around it, when it has a comma,
\* and otherwise its final whitespace-delimited token, lower-cased.
C38_LastName ==
    (xPc = "returned" /\ xCall.fn = "parse_last_name"
        /\ ~IsBlank(xCall.author_str)) =>
        xRet.last =
            IF \E i \in 1..Len(xCall.author_str) : xCall.author_str[i] = ","
            THEN strip(lower(BeforeFirstComma(xCall.author_str)))
            ELSE lower(FinalToken(xCall.author_str))

\* "First Middle Last" with capitals has given the same name as
\* "Last, First" does
C38_Witness ==
    /\ xPc = "returned"
    /\ xCall.fn = "parse_last_name"
    /\ Cardinality(Spaces(xCall.author_str)) = 2
    /\ Commas(xCall.author_str) = {}
    /\ xRet.last # FinalToken(xCall.author_str)
    /\ xRet.last = <<"a", "b">>

\* C39 as stated: the fixed delay a script applies after an outbound call
\* lies between 0.5 and 5 seconds.
C39_DelayWithinFive ==
    /\ \A d \in slept : 5 <= d /\ d <= 50
    /\ \A k \in 1..Len(calls) : 5 <= calls[k].delay /\ calls[k].delay <= 50

\* C39: the fixed delay a script applies after an outbound call lies
\* between 0.5 and 15 seconds.
C39_DelayWithinFifteen ==
    /\ \A d \in slept : 5 <= d /\ d <= 150
    /\ \A k \in 1..Len(calls) : 5 <= calls[k].delay /\ calls[k].delay <= 150

\* validate.py has looked an entry up, written the checkpoint and slept
C39_Witness ==
    /\ variant = "validate"
    /\ lookups # <<>>
    /\ slept # {}

====
